---- MODULE Spec2Model ----
(***************************************************************************)
(* Governance pipeline of callguard: GovernancePipeline.pre_execute and    *)
(* post_execute (src/src/callguard/pipeline.py) driven by the Guard        *)
(* facade's run() wrapper, for run() callers that share one session.       *)
(*                                                                         *)
(* Hook and contract callbacks and the executor are user code: what they   *)
(* return is chosen nondeterministically where they are invoked.  Every    *)
(* action is one stretch of code between two suspension points (an await   *)
(* of a session counter, a callback, the executor or the sink).            *)
(***************************************************************************)
EXTENDS Integers, Sequences, FiniteSets, TLC

(* ------------------------------ bounds -------------------------------- *)
NumRuns == 2
MaxCalls == 3
MaxLimit == 3
NumHooks == 2
NumPreconditions == 2
NumSessionContracts == 1
NumPostconditions == 1
NumAfterHooks == 1

(* ------------------------------ values -------------------------------- *)
None == "None"
Runs == 1..NumRuns
Tools == {"bash", "read_file"}
CappedTools == {"bash"}
Inputs == {"a", "b"}
ModifiedInputs == {"safe"}
Texts == {"t1", "t2"}
Modes == {"enforce", "observe"}

Last(s) == s[Len(s)]

\* envelope.py SideEffect: the members of the enum and their values
SideEffect ==
    [NONE |-> "none", IDEMPOTENT |-> "idempotent", REVERSIBLE |-> "reversible",
     IRREVERSIBLE |-> "irreversible"]

\* the attribute lookup SideEffect.<member>: a name the enum does not define
\* raises AttributeError
SideEffectMember(member) ==
    IF member \in DOMAIN SideEffect
    THEN [raised |-> FALSE, value |-> SideEffect[member]]
    ELSE [raised |-> TRUE, value |-> "AttributeError"]

\* ToolRegistry.get_side_effect: unregistered tools resolve to NONE
get_side_effect(registry, tool_name) ==
    IF tool_name \in DOMAIN registry THEN registry[tool_name] ELSE SideEffect.NONE

\* hooks.py HookDecision.allow / deny / modify
HookDecision_allow == [result |-> "allow", reason |-> "", modified_input |-> None]
HookDecision_deny(reason) == [result |-> "deny", reason |-> reason, modified_input |-> None]
HookDecision_modify(modified_input) ==
    [result |-> "modify", reason |-> "", modified_input |-> modified_input]

\* what a before-hook callback may return, its reasons drawn from texts
HookDecisions(texts) ==
    {HookDecision_allow}
        \cup {HookDecision_deny(r) : r \in texts}
        \cup {HookDecision_modify(m) : m \in ModifiedInputs}

\* contracts.py Verdict.pass_ / Verdict.fail
Verdict_pass == [passed |-> TRUE, message |-> ""]
Verdict_fail(message) == [passed |-> FALSE, message |-> message]
\* what a contract may return, its messages drawn from texts
Verdicts(texts) == {Verdict_pass} \cup {Verdict_fail(m) : m \in texts}

(* --------------------------- registrations ---------------------------- *)
\* types.py HookRegistration: odd hooks are wildcard hooks without a
\* predicate, even hooks are bound to bash and carry a when predicate.
HookRegistration(phase, i) ==
    [phase |-> phase,
     tool |-> IF i % 2 = 1 THEN "*" ELSE "bash",
     name |-> phase \o "_hook_" \o ToString(i),
     when |-> IF i % 2 = 1 THEN None ELSE "input_is_a"]

\* contracts.py precondition / postcondition / session_contract decorators:
\* odd contracts are bound to bash, even ones to the wildcard.
ContractRegistration(kind, i) ==
    [kind |-> kind,
     tool |-> IF kind = "session" THEN None
              ELSE IF i % 2 = 1 THEN "bash" ELSE "*",
     name |-> kind \o "_" \o ToString(i)]

WhenHolds_ignored(hook_reg, envelope) == TRUE

\* pipeline.py: `if hook_reg.when and not hook_reg.when(envelope): continue`
WhenHolds(hook_reg, envelope) ==
    \/ hook_reg.when = None
    \/ hook_reg.when = "input_is_a" /\ envelope.tool_input = "a"

\* Guard.get_hooks(phase, envelope): registration order, exact tool or wildcard
get_hooks(g, phase, envelope) ==
    SelectSeq(g.hooks, LAMBDA h : h.phase = phase /\ h.tool \in {"*", envelope.tool_name})

get_preconditions_of_every_tool(g, envelope) == g.preconditions

\* Guard.get_preconditions(envelope)
get_preconditions(g, envelope) ==
    SelectSeq(g.preconditions, LAMBDA c : c.tool \in {"*", envelope.tool_name})

\* Guard.get_postconditions(envelope)
get_postconditions(g, envelope) ==
    SelectSeq(g.postconditions, LAMBDA c : c.tool \in {"*", envelope.tool_name})

\* Guard.get_session_contracts()
get_session_contracts(g) == g.session_contracts

\* limits.max_calls_per_tool: a cap for some of the tools
PerToolCaps ==
    UNION {[S -> 1..MaxLimit] : S \in SUBSET CappedTools}

\* limits as they are configured: a per-tool cap within the cap on all
\* executions, and that within the cap on attempts
Limits ==
    {l \in [max_attempts : 1..MaxLimit,
            max_tool_calls : 1..MaxLimit,
            max_calls_per_tool : PerToolCaps] :
        /\ l.max_tool_calls <= l.max_attempts
        /\ \A t \in DOMAIN l.max_calls_per_tool :
              l.max_calls_per_tool[t] <= l.max_tool_calls}

MakeGuard(mode, limits, nh, np, ns, texts) ==
    [mode |-> mode,
     texts |-> texts,
     limits |-> limits,
     hooks |-> [i \in 1..nh |-> HookRegistration("before", i)]
                 \o [i \in 1..NumAfterHooks |-> HookRegistration("after", i)],
     preconditions |-> [i \in 1..np |-> ContractRegistration("precondition", i)],
     session_contracts |-> [i \in 1..ns |-> ContractRegistration("session", i)],
     postconditions |-> [i \in 1..NumPostconditions |-> ContractRegistration("postcondition", i)],
     registry |-> [t \in {"bash"} |-> SideEffect.IRREVERSIBLE]]

(* ------------------------------- state -------------------------------- *)
VARIABLES
    guard,                \* the Guard: mode, limits, registered hooks and contracts,
                          \* and the texts its callbacks answer with
    session,              \* the shared Session's counters
    pc,                   \* where each run() is
    envelope,             \* the envelope each run() built
    idx,                  \* position of the loop the run is in
    reads,                \* pre_execute's locals attempt_count, exec_count, tool_count
    hooks_evaluated,      \* pre_execute's local list
    contracts_evaluated,  \* pre_execute's local list
    decision,             \* the PreDecision pre_execute returned
    post,                 \* the PostDecision post_execute returned
    invoked,              \* the callbacks invoked for the call, in order
    executor_calls,       \* the tool_input of each executor invocation of the call
    audit,                \* the audit events emitted for the call, in order
    result,               \* how run() ended
    yaml,                 \* a YAML expression, the envelope it is evaluated against
                          \* and what evaluate_expression and the pipeline made of it
    loader,               \* load_bundle: the file it is given, its position and locals
    sink,                 \* an audit sink's emit: its position, attempts, sleeps, callbacks
    registry,             \* ToolRegistry._registry
    memory,               \* the objects a caller and the envelope it built refer to
    http                  \* an HTTP sink: its _session, the client sessions it
                          \* created, and the emit and close calls in flight

\* the state of a Guard and of the run() calls on it
pipeline == <<guard, session, pc, envelope, idx, reads, hooks_evaluated,
              contracts_evaluated, decision, post, invoked, executor_calls,
              audit, result>>

\* the state of the parts that are used on their own
components == <<yaml, loader, sink, registry, memory, http>>

vars == <<pipeline, components>>

\* a local that was never assigned is <<>>, one that was read is <<value>>
NoReads == [attempt_count |-> <<>>, exec_count |-> <<>>, tool_count |-> <<>>]
NoEnvelope == [tool_name |-> None, tool_input |-> None, side_effect |-> None]
NoDecision ==
    [action |-> None, reason |-> None, decision_source |-> None, decision_name |-> None,
     hooks_evaluated |-> <<>>, contracts_evaluated |-> <<>>]
NoPost ==
    [tool_success |-> FALSE, postconditions_passed |-> FALSE, warnings |-> <<>>,
     contracts_evaluated |-> <<>>]
NoResult == [kind |-> "pending", value |-> None]
\* no expression is being evaluated
NoYaml == [stage |-> "none"]
\* no bundle is being loaded
NoLoad == [stage |-> "none"]
\* no event is being emitted
NoEmit == [stage |-> "none"]
\* ToolRegistry(): nothing registered
NoRegistry == [t \in {} |-> None]
\* no envelope was built outside a run()
NoMemory == [stage |-> "none"]
\* no HTTP sink was built
NoHttp == [stage |-> "none"]

\* Session(): all counters zero
NewSession ==
    [attempts |-> 0, executions |-> 0, tool_executions |-> [t \in Tools |-> 0]]

\* Session.attempt_count / execution_count / tool_execution_count
attempt_count(s) == s.attempts
execution_count(s) == s.executions
tool_execution_count(s, tool_name) == s.tool_executions[tool_name]

\* Session.increment_attempts
increment_attempts(s) == [s EXCEPT !.attempts = @ + 1]

record_execution_total_only(s, tool_name) == [s EXCEPT !.executions = @ + 1]

\* Session.record_execution
record_execution(s, tool_name) ==
    [s EXCEPT !.executions = @ + 1, !.tool_executions[tool_name] = @ + 1]

InitLocals ==
    /\ session = NewSession
    /\ pc = [p \in Runs |-> "idle"]
    /\ envelope = [p \in Runs |-> NoEnvelope]
    /\ idx = [p \in Runs |-> 0]
    /\ reads = [p \in Runs |-> NoReads]
    /\ hooks_evaluated = [p \in Runs |-> <<>>]
    /\ contracts_evaluated = [p \in Runs |-> <<>>]
    /\ decision = [p \in Runs |-> NoDecision]
    /\ post = [p \in Runs |-> NoPost]
    /\ invoked = [p \in Runs |-> <<>>]
    /\ executor_calls = [p \in Runs |-> <<>>]
    /\ audit = [p \in Runs |-> <<>>]
    /\ result = [p \in Runs |-> NoResult]

Init ==
    /\ guard \in {MakeGuard(m, l, NumHooks, NumPreconditions, NumSessionContracts, Texts) :
                    m \in Modes, l \in Limits}
    /\ InitLocals
    /\ yaml = NoYaml
    /\ loader = NoLoad
    /\ sink = NoEmit
    /\ registry = NoRegistry
    /\ memory = NoMemory
    /\ http = NoHttp

(* --------------------------- pre_execute ------------------------------ *)
\* pipeline.py PreDecision
PreDecision(action, reason, decision_source, decision_name, he, ce) ==
    [action |-> action,
     reason |-> reason,
     decision_source |-> decision_source,
     decision_name |-> decision_name,
     hooks_evaluated |-> he,
     contracts_evaluated |-> ce]

hook_record_anonymous(hook_reg, d) ==
    [name |-> "anonymous", result |-> d.result, reason |-> d.reason]

\* pipeline.py hook_record
hook_record(hook_reg, d) ==
    [name |-> hook_reg.name, result |-> d.result, reason |-> d.reason]

\* pipeline.py contract_record
contract_record(contract, type, verdict) ==
    [name |-> contract.name,
     type |-> type,
     passed |-> verdict.passed,
     message |-> verdict.message]

AttemptLimitReached_at_limit(g, n) == n >= g.limits.max_attempts

\* `attempt_count > self._guard.limits.max_attempts`
AttemptLimitReached(g, n) == n > g.limits.max_attempts

ExecutionLimitReached_past_limit(g, n) == n > g.limits.max_tool_calls

\* `exec_count >= self._guard.limits.max_tool_calls`
ExecutionLimitReached(g, n) == n >= g.limits.max_tool_calls

\* `if not verdict.passed` of the precondition loop
PreconditionFailed(verdict) == ~verdict.passed

SessionContractFailed_ignored(verdict) == FALSE

\* `if not verdict.passed` of the session-contract loop
SessionContractFailed(verdict) == ~verdict.passed

\* `envelope.tool_name in self._guard.limits.max_calls_per_tool`
HasToolCap(g, tool_name) == tool_name \in DOMAIN g.limits.max_calls_per_tool

ToolLimitReached_past_limit(g, tool_name, n) == n > g.limits.max_calls_per_tool[tool_name]

\* `tool_count >= tool_limit`
ToolLimitReached(g, tool_name, n) == n >= g.limits.max_calls_per_tool[tool_name]

\* f"max_calls_per_tool:{envelope.tool_name}"
PerToolLimitName(tool_name) == "max_calls_per_tool:" \o tool_name

\* the `return PreDecision(...)` statements of pre_execute
DenyAttemptLimit(he, ce) ==
    PreDecision("deny", "Attempt limit reached", "attempt_limit", "max_attempts", he, ce)

DenyHook_no_reason(d, rec, he, ce) ==
    PreDecision("deny", None, "hook", rec.name, he, ce)

DenyHook_allows_in_observe(d, rec, he, ce) ==
    IF guard.mode = "observe"
    THEN PreDecision("allow", None, None, None, he, ce)
    ELSE PreDecision("deny", d.reason, "hook", rec.name, he, ce)

DenyHook(d, rec, he, ce) ==
    PreDecision("deny", d.reason, "hook", rec.name, he, ce)

DenyPrecondition_lost_message(verdict, rec, he, ce) ==
    PreDecision("deny", "Precondition failed", "precondition", rec.name, he, ce)

DenyPrecondition_as_hook(verdict, rec, he, ce) ==
    PreDecision("deny", verdict.message, "hook", rec.name, he, ce)

DenyPrecondition(verdict, rec, he, ce) ==
    PreDecision("deny", verdict.message, "precondition", rec.name, he, ce)

DenySessionContract(verdict, rec, he, ce) ==
    PreDecision("deny", verdict.message, "session_contract", rec.name, he, ce)

DenyExecutionLimit_own_source(he, ce) ==
    PreDecision("deny", "Execution limit reached", "execution_limit", "max_tool_calls", he, ce)

DenyExecutionLimit(he, ce) ==
    PreDecision("deny", "Execution limit reached", "operation_limit", "max_tool_calls", he, ce)

DenyPerToolLimit(tool_name, he, ce) ==
    PreDecision("deny", "Per-tool limit", "operation_limit", PerToolLimitName(tool_name), he, ce)

Allow(he, ce) ==
    PreDecision("allow", None, None, None, he, ce)

\* pre_execute returns: the run() that awaited it continues
Return(p, d) ==
    /\ decision' = [decision EXCEPT ![p] = d]
    /\ pc' = [pc EXCEPT ![p] = "decided"]

\* 1. Attempt limit
AttemptLimit(p) ==
    /\ pc[p] = "attempt_limit"
    /\ reads' = [reads EXCEPT ![p].attempt_count = <<attempt_count(session)>>]
    /\ IF AttemptLimitReached(guard, attempt_count(session))
       THEN /\ Return(p, DenyAttemptLimit(hooks_evaluated[p], contracts_evaluated[p]))
            /\ UNCHANGED idx
       ELSE /\ pc' = [pc EXCEPT ![p] = "before_hooks"]
            /\ idx' = [idx EXCEPT ![p] = 1]
            /\ UNCHANGED decision
    /\ UNCHANGED <<components, guard, session, envelope, hooks_evaluated, contracts_evaluated,
                   post, invoked, executor_calls, audit, result>>

\* 2. Before hooks: a hook whose when predicate is false is passed over
BeforeHookSkip(p) ==
    LET hs == get_hooks(guard, "before", envelope[p]) IN
    /\ pc[p] = "before_hooks"
    /\ idx[p] <= Len(hs)
    /\ ~WhenHolds(hs[idx[p]], envelope[p])
    /\ idx' = [idx EXCEPT ![p] = @ + 1]
    /\ UNCHANGED <<components, guard, session, pc, envelope, reads, hooks_evaluated,
                   contracts_evaluated, decision, post, invoked, executor_calls,
                   audit, result>>

\* 2. Before hooks: the callback is invoked with the envelope and its decision recorded
BeforeHook(p) ==
    LET hs == get_hooks(guard, "before", envelope[p]) IN
    /\ pc[p] = "before_hooks"
    /\ idx[p] <= Len(hs)
    /\ WhenHolds(hs[idx[p]], envelope[p])
    /\ \E d \in HookDecisions(guard.texts) :
         LET rec == hook_record(hs[idx[p]], d)
             he == Append(hooks_evaluated[p], rec)
         IN /\ invoked' = [invoked EXCEPT ![p] =
                             Append(@, [kind |-> "hook", name |-> hs[idx[p]].name,
                                        tool_input |-> envelope[p].tool_input,
                                        returned |-> d])]
            /\ hooks_evaluated' = [hooks_evaluated EXCEPT ![p] = he]
            /\ IF d.result = "deny"
               THEN /\ Return(p, DenyHook(d, rec, he, contracts_evaluated[p]))
                    /\ UNCHANGED idx
               ELSE /\ idx' = [idx EXCEPT ![p] = @ + 1]
                    /\ UNCHANGED <<pc, decision>>
    /\ UNCHANGED <<components, guard, session, envelope, reads, contracts_evaluated, post,
                   executor_calls, audit, result>>

\* the before-hook loop is exhausted
BeforeHooksDone(p) ==
    /\ pc[p] = "before_hooks"
    /\ idx[p] > Len(get_hooks(guard, "before", envelope[p]))
    /\ pc' = [pc EXCEPT ![p] = "preconditions"]
    /\ idx' = [idx EXCEPT ![p] = 1]
    /\ UNCHANGED <<components, guard, session, envelope, reads, hooks_evaluated,
                   contracts_evaluated, decision, post, invoked, executor_calls,
                   audit, result>>

\* 3. Preconditions
Precondition(p) ==
    LET cs == get_preconditions(guard, envelope[p]) IN
    /\ pc[p] = "preconditions"
    /\ idx[p] <= Len(cs)
    /\ \E verdict \in Verdicts(guard.texts) :
         LET rec == contract_record(cs[idx[p]], "precondition", verdict)
             ce == Append(contracts_evaluated[p], rec)
         IN /\ invoked' = [invoked EXCEPT ![p] =
                             Append(@, [kind |-> "precondition", name |-> cs[idx[p]].name,
                                        tool_input |-> envelope[p].tool_input,
                                        returned |-> verdict])]
            /\ contracts_evaluated' = [contracts_evaluated EXCEPT ![p] = ce]
            /\ IF PreconditionFailed(verdict)
               THEN /\ Return(p, DenyPrecondition(verdict, rec, hooks_evaluated[p], ce))
                    /\ UNCHANGED idx
               ELSE /\ idx' = [idx EXCEPT ![p] = @ + 1]
                    /\ UNCHANGED <<pc, decision>>
    /\ UNCHANGED <<components, guard, session, envelope, reads, hooks_evaluated, post,
                   executor_calls, audit, result>>

\* the precondition loop is exhausted
PreconditionsDone(p) ==
    /\ pc[p] = "preconditions"
    /\ idx[p] > Len(get_preconditions(guard, envelope[p]))
    /\ pc' = [pc EXCEPT ![p] = "session_contracts"]
    /\ idx' = [idx EXCEPT ![p] = 1]
    /\ UNCHANGED <<components, guard, session, envelope, reads, hooks_evaluated,
                   contracts_evaluated, decision, post, invoked, executor_calls,
                   audit, result>>

\* 4. Session contracts
SessionContract(p) ==
    LET cs == get_session_contracts(guard) IN
    /\ pc[p] = "session_contracts"
    /\ idx[p] <= Len(cs)
    /\ \E verdict \in Verdicts(guard.texts) :
         LET rec == contract_record(cs[idx[p]], "session_contract", verdict)
             ce == Append(contracts_evaluated[p], rec)
         IN /\ invoked' = [invoked EXCEPT ![p] =
                             Append(@, [kind |-> "session_contract", name |-> cs[idx[p]].name,
                                        tool_input |-> None,
                                        returned |-> verdict])]
            /\ contracts_evaluated' = [contracts_evaluated EXCEPT ![p] = ce]
            /\ IF SessionContractFailed(verdict)
               THEN /\ Return(p, DenySessionContract(verdict, rec, hooks_evaluated[p], ce))
                    /\ UNCHANGED idx
               ELSE /\ idx' = [idx EXCEPT ![p] = @ + 1]
                    /\ UNCHANGED <<pc, decision>>
    /\ UNCHANGED <<components, guard, session, envelope, reads, hooks_evaluated, post,
                   executor_calls, audit, result>>

\* the session-contract loop is exhausted
SessionContractsDone(p) ==
    /\ pc[p] = "session_contracts"
    /\ idx[p] > Len(get_session_contracts(guard))
    /\ pc' = [pc EXCEPT ![p] = "execution_limit"]
    /\ UNCHANGED <<components, guard, session, envelope, idx, reads, hooks_evaluated,
                   contracts_evaluated, decision, post, invoked, executor_calls,
                   audit, result>>

ExecutionLimit_consumes(p) ==
    /\ pc[p] = "execution_limit"
    /\ reads' = [reads EXCEPT ![p].exec_count = <<execution_count(session)>>]
    /\ IF ExecutionLimitReached(guard, execution_count(session))
       THEN /\ Return(p, DenyExecutionLimit(hooks_evaluated[p], contracts_evaluated[p]))
            /\ UNCHANGED session
       ELSE /\ pc' = [pc EXCEPT ![p] = "per_tool_limit"]
            /\ session' = record_execution(session, envelope[p].tool_name)
            /\ UNCHANGED decision
    /\ UNCHANGED <<components, guard, envelope, idx, hooks_evaluated, contracts_evaluated,
                   post, invoked, executor_calls, audit, result>>

\* 5. Execution limits
ExecutionLimit(p) ==
    /\ pc[p] = "execution_limit"
    /\ reads' = [reads EXCEPT ![p].exec_count = <<execution_count(session)>>]
    /\ IF ExecutionLimitReached(guard, execution_count(session))
       THEN Return(p, DenyExecutionLimit(hooks_evaluated[p], contracts_evaluated[p]))
       ELSE /\ pc' = [pc EXCEPT ![p] = "per_tool_limit"]
            /\ UNCHANGED decision
    /\ UNCHANGED <<components, guard, session, envelope, idx, hooks_evaluated, contracts_evaluated,
                   post, invoked, executor_calls, audit, result>>

\* Per-tool limits, then 6. all checks passed
PerToolLimit(p) ==
    LET tool_name == envelope[p].tool_name IN
    /\ pc[p] = "per_tool_limit"
    /\ IF HasToolCap(guard, tool_name)
       THEN /\ reads' = [reads EXCEPT ![p].tool_count =
                           <<tool_execution_count(session, tool_name)>>]
            /\ IF ToolLimitReached(guard, tool_name, tool_execution_count(session, tool_name))
               THEN Return(p, DenyPerToolLimit(tool_name, hooks_evaluated[p],
                                                contracts_evaluated[p]))
               ELSE Return(p, Allow(hooks_evaluated[p], contracts_evaluated[p]))
       ELSE /\ Return(p, Allow(hooks_evaluated[p], contracts_evaluated[p]))
            /\ UNCHANGED reads
    /\ UNCHANGED <<components, guard, session, envelope, idx, hooks_evaluated, contracts_evaluated,
                   post, invoked, executor_calls, audit, result>>

(* --------------------------- post_execute ----------------------------- *)
\* `envelope.side_effect in (SideEffect.PURE, SideEffect.READ)`: building the
\* tuple looks both members up, so a missing member raises before any comparison
PureOrRead ==
    LET pure == SideEffectMember("PURE")
        read == SideEffectMember("READ")
    IN IF pure.raised \/ read.raised
       THEN [raised |-> TRUE, members |-> {}]
       ELSE [raised |-> FALSE, members |-> {pure.value, read.value}]

\* the warning appended for a failing postcondition, or the error of building it
Warning(side_effect, message) ==
    IF PureOrRead.raised
    THEN [raised |-> TRUE, message |-> "AttributeError", advice |-> None]
    ELSE IF side_effect \in PureOrRead.members
    THEN [raised |-> FALSE, message |-> message, advice |-> "Consider retrying."]
    ELSE [raised |-> FALSE, message |-> message,
          advice |-> "Tool already executed - assess before proceeding."]

PostDecision_any_passed(env, cs, vs, tool_success) ==
    LET ce == [i \in 1..Len(cs) |-> contract_record(cs[i], "postcondition", vs[i])]
        failed == SelectSeq(ce, LAMBDA c : ~c.passed)
    IN [tool_success |-> tool_success,
        postconditions_passed |-> \E i \in 1..Len(ce) : ce[i].passed,
        warnings |-> [i \in 1..Len(failed) |-> Warning(env.side_effect, failed[i].message)],
        contracts_evaluated |-> ce]

\* pipeline.py PostDecision, as post_execute builds it from the verdicts vs
PostDecision(env, cs, vs, tool_success) ==
    LET ce == [i \in 1..Len(cs) |-> contract_record(cs[i], "postcondition", vs[i])]
        failed == SelectSeq(ce, LAMBDA c : ~c.passed)
    IN [tool_success |-> tool_success,
        postconditions_passed |-> \A i \in 1..Len(ce) : ce[i].passed,
        warnings |-> [i \in 1..Len(failed) |-> Warning(env.side_effect, failed[i].message)],
        contracts_evaluated |-> ce]

\* the first postcondition whose warning cannot be built, 0 when there is none:
\* post_execute raises there and evaluates nothing after it
FirstRaising(env, cs, vs) ==
    LET bad == {i \in 1..Len(cs) :
                  ~vs[i].passed /\ Warning(env.side_effect, vs[i].message).raised}
    IN IF bad = {} THEN 0 ELSE CHOOSE i \in bad : \A j \in bad : i <= j

\* the after-hooks post_execute invokes: those whose when predicate holds
AfterHooksInvoked(g, env) ==
    SelectSeq(get_hooks(g, "after", env), LAMBDA h : WhenHolds(h, env))

(* ------------------------------- run() -------------------------------- *)
\* audit.py AuditEvent, stamped from the PreDecision
AuditEvent(action, reason, d) ==
    [action |-> action,
     reason |-> reason,
     decision_source |-> d.decision_source,
     decision_name |-> d.decision_name,
     hooks_evaluated |-> d.hooks_evaluated,
     contracts_evaluated |-> d.contracts_evaluated]

\* one call_modify record per hook that returned modify
ModifyEvents(d) ==
    LET ms == SelectSeq(d.hooks_evaluated, LAMBDA h : h.result = "modify")
    IN [i \in 1..Len(ms) |->
          [action |-> "call_modify",
           reason |-> ms[i].reason,
           decision_source |-> "hook",
           decision_name |-> ms[i].name,
           hooks_evaluated |-> d.hooks_evaluated,
           contracts_evaluated |-> d.contracts_evaluated]]

\* run(tool_name, tool_input, executor): build the envelope, count the attempt.
\* Runs are interchangeable: a new call takes the first run that is idle.
RunStart(p, tool_name, tool_input) ==
    /\ pc[p] = "idle"
    /\ \A q \in Runs : q < p => pc[q] # "idle"
    /\ attempt_count(session) < MaxCalls
    /\ envelope' = [envelope EXCEPT ![p] =
                      [tool_name |-> tool_name,
                       tool_input |-> tool_input,
                       side_effect |-> get_side_effect(guard.registry, tool_name)]]
    /\ session' = increment_attempts(session)
    /\ pc' = [pc EXCEPT ![p] = "attempt_limit"]
    /\ UNCHANGED <<components, guard, idx, reads, hooks_evaluated, contracts_evaluated, decision,
                   post, invoked, executor_calls, audit, result>>

\* deny in enforce mode: emit call_deny, raise Denied(message)
RunDeny(p) ==
    /\ pc[p] = "decided"
    /\ decision[p].action = "deny"
    /\ guard.mode = "enforce"
    /\ audit' = [audit EXCEPT ![p] =
                   @ \o ModifyEvents(decision[p])
                     \o <<AuditEvent("call_deny", decision[p].reason, decision[p])>>]
    /\ result' = [result EXCEPT ![p] = [kind |-> "Denied", value |-> decision[p].reason]]
    /\ pc' = [pc EXCEPT ![p] = "done"]
    /\ UNCHANGED <<components, guard, session, envelope, idx, reads, hooks_evaluated,
                   contracts_evaluated, decision, post, invoked, executor_calls>>

RunWouldDeny_blocks(p) ==
    /\ pc[p] = "decided"
    /\ decision[p].action = "deny"
    /\ guard.mode = "observe"
    /\ audit' = [audit EXCEPT ![p] =
                   @ \o ModifyEvents(decision[p])
                     \o <<AuditEvent("call_would_deny", decision[p].reason, decision[p])>>]
    /\ result' = [result EXCEPT ![p] = [kind |-> "Denied", value |-> decision[p].reason]]
    /\ pc' = [pc EXCEPT ![p] = "done"]
    /\ UNCHANGED <<components, guard, session, envelope, idx, reads, hooks_evaluated,
                   contracts_evaluated, decision, post, invoked, executor_calls>>

\* deny in observe mode: emit call_would_deny, go on to execute
RunWouldDeny(p) ==
    /\ pc[p] = "decided"
    /\ decision[p].action = "deny"
    /\ guard.mode = "observe"
    /\ audit' = [audit EXCEPT ![p] =
                   @ \o ModifyEvents(decision[p])
                     \o <<AuditEvent("call_would_deny", decision[p].reason, decision[p])>>]
    /\ pc' = [pc EXCEPT ![p] = "execute"]
    /\ UNCHANGED <<components, guard, session, envelope, idx, reads, hooks_evaluated,
                   contracts_evaluated, decision, post, invoked, executor_calls, result>>

\* allow: go on to execute
RunAllow(p) ==
    /\ pc[p] = "decided"
    /\ decision[p].action = "allow"
    /\ audit' = [audit EXCEPT ![p] = @ \o ModifyEvents(decision[p])]
    /\ pc' = [pc EXCEPT ![p] = "execute"]
    /\ UNCHANGED <<components, guard, session, envelope, idx, reads, hooks_evaluated,
                   contracts_evaluated, decision, post, invoked, executor_calls, result>>

\* the executor is the caller's callable: what it returns is told from its input
executor(tool_input) == "contents of " \o tool_input

\* executor(**tool_input) returns: an allowed call that ran is counted and
\* emits call_allow
Execute(p) ==
    /\ pc[p] = "execute"
    /\ executor_calls' = [executor_calls EXCEPT ![p] = Append(@, envelope[p].tool_input)]
    /\ IF decision[p].action = "allow"
       THEN /\ session' = record_execution(session, envelope[p].tool_name)
            /\ audit' = [audit EXCEPT ![p] =
                           Append(@, AuditEvent("call_allow", "", decision[p]))]
       ELSE UNCHANGED <<session, audit>>
    /\ pc' = [pc EXCEPT ![p] = "post_execute"]
    /\ UNCHANGED <<components, guard, envelope, idx, reads, hooks_evaluated,
                   contracts_evaluated, decision, post, invoked, result>>

ExecuteRaises_runs_after_hooks(p) ==
    LET ahs == SelectSeq(get_hooks(guard, "after", envelope[p]),
                         LAMBDA h : WhenHolds(h, envelope[p]))
    IN
    /\ pc[p] = "execute"
    /\ executor_calls' = [executor_calls EXCEPT ![p] = Append(@, envelope[p].tool_input)]
    /\ audit' = [audit EXCEPT ![p] =
                   Append(@, AuditEvent("call_error", "executor error", decision[p]))]
    /\ invoked' = [invoked EXCEPT ![p] =
                     @ \o [i \in 1..Len(ahs) |->
                             [kind |-> "after_hook", name |-> ahs[i].name,
                              tool_input |-> envelope[p].tool_input, returned |-> None]]]
    /\ result' = [result EXCEPT ![p] = [kind |-> "raised", value |-> "executor error"]]
    /\ pc' = [pc EXCEPT ![p] = "done"]
    /\ UNCHANGED <<components, guard, session, envelope, idx, reads, hooks_evaluated,
                   contracts_evaluated, decision, post>>

\* executor(**tool_input) raises: emit call_error, re-raise
ExecuteRaises(p) ==
    /\ pc[p] = "execute"
    /\ executor_calls' = [executor_calls EXCEPT ![p] = Append(@, envelope[p].tool_input)]
    /\ audit' = [audit EXCEPT ![p] =
                   Append(@, AuditEvent("call_error", "executor error", decision[p]))]
    /\ result' = [result EXCEPT ![p] = [kind |-> "raised", value |-> "executor error"]]
    /\ pc' = [pc EXCEPT ![p] = "done"]
    /\ UNCHANGED <<components, guard, session, envelope, idx, reads, hooks_evaluated,
                   contracts_evaluated, decision, post, invoked>>

\* the postconditions post_execute invoked when it evaluated the first k of cs
PostconditionsInvoked(env, cs, vs, k) ==
    [i \in 1..k |->
       [kind |-> "postcondition", name |-> cs[i].name,
        tool_input |-> env.tool_input, returned |-> vs[i]]]

\* post_execute(envelope, tool_response, tool_success=True) returns its
\* PostDecision: postconditions, then after-hooks; run() returns the
\* executor's result
RunReturn(p) ==
    LET cs == get_postconditions(guard, envelope[p])
        ahs == AfterHooksInvoked(guard, envelope[p])
    IN
    /\ pc[p] = "post_execute"
    /\ \E vs \in [1..Len(cs) -> Verdicts(guard.texts)] :
         /\ FirstRaising(envelope[p], cs, vs) = 0
         /\ post' = [post EXCEPT ![p] = PostDecision(envelope[p], cs, vs, TRUE)]
         /\ invoked' = [invoked EXCEPT ![p] =
              @ \o PostconditionsInvoked(envelope[p], cs, vs, Len(cs))
                \o [i \in 1..Len(ahs) |->
                      [kind |-> "after_hook", name |-> ahs[i].name,
                       tool_input |-> envelope[p].tool_input, returned |-> None]]]
    /\ result' = [result EXCEPT ![p] =
                    [kind |-> "returned", value |-> executor(Last(executor_calls[p]))]]
    /\ pc' = [pc EXCEPT ![p] = "done"]
    /\ UNCHANGED <<components, guard, session, envelope, idx, reads, hooks_evaluated,
                   contracts_evaluated, decision, executor_calls, audit>>

\* post_execute raises while building the warning of a failing postcondition:
\* nothing after that postcondition is evaluated, no PostDecision is returned,
\* and the error leaves run()
PostExecuteRaises(p) ==
    LET cs == get_postconditions(guard, envelope[p]) IN
    /\ pc[p] = "post_execute"
    /\ \E vs \in [1..Len(cs) -> Verdicts(guard.texts)] :
         LET k == FirstRaising(envelope[p], cs, vs) IN
         /\ k > 0
         /\ invoked' = [invoked EXCEPT ![p] =
                          @ \o PostconditionsInvoked(envelope[p], cs, vs, k)]
         /\ result' = [result EXCEPT ![p] =
                         [kind |-> "raised",
                          value |-> Warning(envelope[p].side_effect, vs[k].message).message]]
    /\ pc' = [pc EXCEPT ![p] = "done"]
    /\ UNCHANGED <<components, guard, session, envelope, idx, reads, hooks_evaluated,
                   contracts_evaluated, decision, post, executor_calls, audit>>

\* the caller has the outcome; the run's locals are gone
RunEnd(p) ==
    /\ pc[p] = "done"
    /\ pc' = [pc EXCEPT ![p] = "idle"]
    /\ envelope' = [envelope EXCEPT ![p] = NoEnvelope]
    /\ idx' = [idx EXCEPT ![p] = 0]
    /\ reads' = [reads EXCEPT ![p] = NoReads]
    /\ hooks_evaluated' = [hooks_evaluated EXCEPT ![p] = <<>>]
    /\ contracts_evaluated' = [contracts_evaluated EXCEPT ![p] = <<>>]
    /\ decision' = [decision EXCEPT ![p] = NoDecision]
    /\ post' = [post EXCEPT ![p] = NoPost]
    /\ invoked' = [invoked EXCEPT ![p] = <<>>]
    /\ executor_calls' = [executor_calls EXCEPT ![p] = <<>>]
    /\ audit' = [audit EXCEPT ![p] = <<>>]
    /\ result' = [result EXCEPT ![p] = NoResult]
    /\ UNCHANGED <<components, guard, session>>

\* the call is suspended in a before-hook, a precondition, a session contract
\* or the executor
Suspended(p) ==
    \/ /\ pc[p] = "before_hooks"
       /\ idx[p] <= Len(get_hooks(guard, "before", envelope[p]))
       /\ WhenHolds(get_hooks(guard, "before", envelope[p])[idx[p]], envelope[p])
    \/ pc[p] = "preconditions" /\ idx[p] <= Len(get_preconditions(guard, envelope[p]))
    \/ pc[p] = "session_contracts" /\ idx[p] <= Len(get_session_contracts(guard))
    \/ pc[p] = "execute"

\* the host cancels the call while it is suspended: the cancellation leaves
\* pre_execute or the executor, run() emits call_error with reason "cancelled"
Cancel(p) ==
    /\ Suspended(p)
    /\ audit' = [audit EXCEPT ![p] =
                   Append(@, AuditEvent("call_error", "cancelled", decision[p]))]
    /\ result' = [result EXCEPT ![p] = [kind |-> "cancelled", value |-> "cancelled"]]
    /\ pc' = [pc EXCEPT ![p] = "done"]
    /\ UNCHANGED <<components, guard, session, envelope, idx, reads, hooks_evaluated,
                   contracts_evaluated, decision, post, invoked, executor_calls>>

(* -------------------------- specifications ---------------------------- *)
\* the steps of a run() once it has started
Step(p) ==
    \/ AttemptLimit(p)
    \/ BeforeHookSkip(p)
    \/ BeforeHook(p)
    \/ BeforeHooksDone(p)
    \/ Precondition(p)
    \/ PreconditionsDone(p)
    \/ SessionContract(p)
    \/ SessionContractsDone(p)
    \/ ExecutionLimit(p)
    \/ PerToolLimit(p)
    \/ RunDeny(p)
    \/ RunWouldDeny(p)
    \/ RunAllow(p)
    \/ Execute(p)
    \/ ExecuteRaises(p)
    \/ RunReturn(p)
    \/ PostExecuteRaises(p)
    \/ RunEnd(p)

\* calls of a session made one after another: a run() starts when none is in flight
RunSequential(p) ==
    /\ \A q \in Runs : pc[q] = "idle"
    /\ \E tool_name \in Tools, tool_input \in Inputs : RunStart(p, tool_name, tool_input)

\* concurrent run() calls sharing the session
RunConcurrent(p) ==
    \E tool_name \in Tools, tool_input \in Inputs : RunStart(p, tool_name, tool_input)

Next == \E p \in Runs : RunSequential(p) \/ Step(p)

Spec == Init /\ [][Next]_vars

NextConcurrent == \E p \in Runs : RunConcurrent(p) \/ Step(p)

\* concurrent callers under limits tight enough for them to race
InitConcurrent ==
    /\ guard \in {MakeGuard(m, l, NumHooks, 1, 1, {"t1"}) :
                    m \in Modes,
                    l \in [max_attempts : {MaxCalls - 1},
                           max_tool_calls : 1..NumRuns,
                           max_calls_per_tool : [CappedTools -> {1}]]}
    /\ InitLocals
    /\ yaml = NoYaml
    /\ loader = NoLoad
    /\ sink = NoEmit
    /\ registry = NoRegistry
    /\ memory = NoMemory
    /\ http = NoHttp

SpecConcurrent == InitConcurrent /\ [][NextConcurrent]_vars

\* calls made one after another that the host may cancel
NextCancel == \E p \in Runs : RunSequential(p) \/ Step(p) \/ Cancel(p)

SpecCancel == Init /\ [][NextCancel]_vars

(* ------------------------ YAML policy evaluator ------------------------ *)
\* the values a selector resolves to and an operand holds; a string is the
\* sequence of its characters
Str(s) == [type |-> "str", str |-> s, num |-> 0, items |-> {}]
Num(n) == [type |-> "num", str |-> <<>>, num |-> n, items |-> {}]
Bool(b) == [type |-> "bool", str |-> <<>>, num |-> IF b THEN 1 ELSE 0, items |-> {}]
Null == [type |-> "null", str |-> <<>>, num |-> 0, items |-> {}]
Dict(items) == [type |-> "dict", str |-> <<>>, num |-> 0, items |-> items]
\* the value of a selector that does not resolve
Absent == [type |-> "absent", str |-> <<>>, num |-> 0, items |-> {}]

\* the envelopes expressions are evaluated against: create_envelope(tool_name,
\* tool_input, environment, principal)
YamlEnvelopes ==
    {[tool_name |-> Str(<<"r", "f">>),
      environment |-> Str(<<"p", "r", "o", "d">>),
      tool_input |-> Dict({[key |-> "count", val |-> Num(10)],
                           [key |-> "path", val |-> Str(<<"a", "b">>)],
                           [key |-> "config",
                            val |-> Dict({[key |-> "timeout", val |-> Num(30)]})]}),
      principal |-> Dict({[key |-> "role", val |-> Str(<<"a", "d">>)]})],
     [tool_name |-> Str(<<"r", "f">>),
      environment |-> Str(<<"p", "r", "o", "d">>),
      tool_input |-> Dict({[key |-> "count", val |-> Str(<<"t", "e", "n">>)],
                           [key |-> "path", val |-> Num(7)],
                           [key |-> "config", val |-> Dict({})]}),
      principal |-> Dict({[key |-> "role", val |-> Null]})],
     [tool_name |-> Str(<<"r", "f">>),
      environment |-> Str(<<"p", "r", "o", "d">>),
      tool_input |-> Dict({}),
      principal |-> Null]}

\* dotted selectors, split at the dots
Selectors ==
    {<<"tool", "name">>,
     <<"args", "count">>,
     <<"args", "path">>,
     <<"args", "config", "timeout">>,
     <<"principal", "role">>,
     <<"unknown", "selector">>}

EqualityOperators == {"equals", "not_equals"}
MembershipOperators == {"in", "not_in"}
StringOperators ==
    {"contains", "contains_any", "starts_with", "ends_with", "matches", "matches_any"}
NumericOperators == {"gt", "gte", "lt", "lte"}
ComparisonOperators ==
    EqualityOperators \cup MembershipOperators \cup StringOperators \cup NumericOperators
Operators == ComparisonOperators \cup {"exists"}

\* the operands a leaf is written with: a scalar is a list of one
Operands(operator) ==
    CASE operator \in EqualityOperators -> {<<Num(10)>>, <<Str(<<"a", "b">>)>>}
      [] operator \in MembershipOperators -> {<<Num(10), Str(<<"a", "b">>)>>}
      [] operator = "contains" -> {<<Str(<<"b">>)>>}
      [] operator = "contains_any" -> {<<Str(<<"x">>), Str(<<"e">>)>>}
      [] operator = "starts_with" -> {<<Str(<<"a">>)>>}
      [] operator = "ends_with" -> {<<Str(<<"n">>)>>}
      [] operator = "matches" -> {<<Str(<<"^", "a">>)>>}
      [] operator = "matches_any" -> {<<Str(<<"x">>), Str(<<"n", "$">>)>>}
      [] operator = "gt" -> {<<Num(5)>>}
      [] operator = "gte" -> {<<Num(10)>>}
      [] operator = "lt" -> {<<Num(10)>>}
      [] operator = "lte" -> {<<Num(30)>>}
      [] operator = "exists" -> {<<Bool(TRUE)>>, <<Bool(FALSE)>>}

\* an expression: a leaf {selector: {operator: operand}} or a boolean node
NoLeaf == [selector |-> <<>>, operator |-> "", operand |-> <<>>]
Leaf(selector, operator, operand) ==
    [node |-> "leaf",
     leaf |-> [selector |-> selector, operator |-> operator, operand |-> operand],
     children |-> <<>>]
Node(op, children) == [node |-> op, leaf |-> NoLeaf, children |-> children]

\* evaluation results: a boolean, or the _PolicyError sentinel with its message
BoolResult(b) == [kind |-> "bool", value |-> b, message |-> ""]
PolicyError(message) == [kind |-> "policy_error", value |-> FALSE, message |-> message]
\* bool(result): a _PolicyError is truthy
Truthy(r) == IF r.kind = "policy_error" THEN TRUE ELSE r.value

\* dict.get(key), a miss when the value is no dict or has no such key
Lookup(v, key) ==
    IF v.type = "dict" /\ \E it \in v.items : it.key = key
    THEN (CHOOSE it \in v.items : it.key = key).val
    ELSE Absent

RECURSIVE Descend(_, _)
\* follows a dotted path; a missing intermediate key is a miss
Descend(v, path) ==
    IF path = <<>> THEN v ELSE Descend(Lookup(v, Head(path)), Tail(path))

\* a null value is absent
Present(v) == IF v.type = "null" THEN Absent ELSE v

\* selector resolution against the envelope
resolve_selector(selector, env) ==
    IF selector = <<"environment">> THEN Present(env.environment)
    ELSE IF selector = <<"tool", "name">> THEN Present(env.tool_name)
    ELSE IF Len(selector) > 1 /\ Head(selector) = "args"
    THEN Present(Descend(env.tool_input, Tail(selector)))
    ELSE IF Len(selector) > 1 /\ Head(selector) = "principal"
    THEN Present(Descend(env.principal, Tail(selector)))
    ELSE Absent

IsSub(p, s) == \E i \in 0..(Len(s) - Len(p)) : SubSeq(s, i + 1, i + Len(p)) = p
StartsWith(s, p) == Len(p) <= Len(s) /\ SubSeq(s, 1, Len(p)) = p
EndsWith(s, p) == Len(p) <= Len(s) /\ SubSeq(s, Len(s) - Len(p) + 1, Len(s)) = p

\* re.search for patterns of literal characters with optional ^ and $ anchors
re_search(pattern, s) ==
    LET front == pattern # <<>> /\ Head(pattern) = "^"
        rest == IF front THEN Tail(pattern) ELSE pattern
        back == rest # <<>> /\ Last(rest) = "$"
        body == IF back THEN SubSeq(rest, 1, Len(rest) - 1) ELSE rest
    IN IF front /\ back THEN s = body
       ELSE IF front THEN StartsWith(s, body)
       ELSE IF back THEN EndsWith(s, body)
       ELSE IsSub(body, s)

\* the type an operator requires of the value, None when it takes any
RequiredType(operator) ==
    IF operator \in StringOperators THEN "str"
    ELSE IF operator \in NumericOperators THEN "num"
    ELSE None

TypeMismatch(operator, value) ==
    RequiredType(operator) # None /\ value.type # RequiredType(operator)

\* an operator applied to a present value of the type it requires
apply_operator(operator, value, operand) ==
    CASE operator = "equals" -> value = operand[1]
      [] operator = "not_equals" -> value # operand[1]
      [] operator = "in" -> \E i \in 1..Len(operand) : operand[i] = value
      [] operator = "not_in" -> \A i \in 1..Len(operand) : operand[i] # value
      [] operator = "contains" -> IsSub(operand[1].str, value.str)
      [] operator = "contains_any" ->
            \E i \in 1..Len(operand) : IsSub(operand[i].str, value.str)
      [] operator = "starts_with" -> StartsWith(value.str, operand[1].str)
      [] operator = "ends_with" -> EndsWith(value.str, operand[1].str)
      [] operator = "matches" -> re_search(operand[1].str, value.str)
      [] operator = "matches_any" ->
            \E i \in 1..Len(operand) : re_search(operand[i].str, value.str)
      [] operator = "gt" -> value.num > operand[1].num
      [] operator = "gte" -> value.num >= operand[1].num
      [] operator = "lt" -> value.num < operand[1].num
      [] operator = "lte" -> value.num <= operand[1].num

evaluate_leaf_absent_compared(leaf, env) ==
    LET value == resolve_selector(leaf.selector, env)
    IN IF leaf.operator = "exists"
       THEN BoolResult((value # Absent) = (leaf.operand[1] = Bool(TRUE)))
       ELSE IF TypeMismatch(leaf.operator, value)
       THEN PolicyError("Type mismatch")
       ELSE BoolResult(apply_operator(leaf.operator, value, leaf.operand))

\* a leaf: exists inspects absence, every other operator is false on an absent
\* value and a PolicyError on a value of the wrong type
evaluate_leaf(leaf, env) ==
    LET value == resolve_selector(leaf.selector, env)
    IN IF leaf.operator = "exists"
       THEN BoolResult((value # Absent) = (leaf.operand[1] = Bool(TRUE)))
       ELSE IF value = Absent
       THEN BoolResult(FALSE)
       ELSE IF TypeMismatch(leaf.operator, value)
       THEN PolicyError("Type mismatch")
       ELSE BoolResult(apply_operator(leaf.operator, value, leaf.operand))

\* the first PolicyError among the results, 0 when there is none
FirstError(rs) ==
    IF \E i \in 1..Len(rs) : rs[i].kind = "policy_error"
    THEN CHOOSE i \in 1..Len(rs) :
            /\ rs[i].kind = "policy_error"
            /\ \A j \in 1..(i - 1) : rs[j].kind # "policy_error"
    ELSE 0

\* {not: expr}: a PolicyError stays a PolicyError
EvalNot(r) == IF r.kind = "policy_error" THEN r ELSE BoolResult(~r.value)

EvalAll_short_circuit(rs) ==
    LET stop == IF \E i \in 1..Len(rs) : rs[i].kind = "policy_error" \/ ~rs[i].value
                THEN CHOOSE i \in 1..Len(rs) :
                        /\ rs[i].kind = "policy_error" \/ ~rs[i].value
                        /\ \A j \in 1..(i - 1) : rs[j].kind = "bool" /\ rs[j].value
                ELSE 0
    IN IF stop = 0 THEN BoolResult(TRUE) ELSE rs[stop]

\* {all: [...]}: a PolicyError of any child is the result
EvalAll(rs) ==
    IF FirstError(rs) # 0 THEN rs[FirstError(rs)]
    ELSE BoolResult(\A i \in 1..Len(rs) : rs[i].value)

\* {any: [...]}: a PolicyError of any child is the result
EvalAny(rs) ==
    IF FirstError(rs) # 0 THEN rs[FirstError(rs)]
    ELSE BoolResult(\E i \in 1..Len(rs) : rs[i].value)

RECURSIVE evaluate_expression(_, _)
evaluate_expression(expr, env) ==
    IF expr.node = "leaf" THEN evaluate_leaf(expr.leaf, env)
    ELSE LET rs == [i \in 1..Len(expr.children) |->
                      evaluate_expression(expr.children[i], env)]
         IN CASE expr.node = "not" -> EvalNot(rs[1])
              [] expr.node = "all" -> EvalAll(rs)
              [] expr.node = "any" -> EvalAny(rs)

\* the compiled `pre` contract with then.effect = deny: a truthy condition,
\* PolicyError included, is a failing verdict
compile_deny_pre(expr, message, env) ==
    IF Truthy(evaluate_expression(expr, env)) THEN Verdict_fail(message) ELSE Verdict_pass

\* pre_execute of a guard whose only check is the compiled contract
YamlDecision(expr, env) ==
    LET contract == [kind |-> "precondition", tool |-> "*", name |-> "yaml_deny"]
        verdict == compile_deny_pre(expr, "denied by policy", env)
        rec == contract_record(contract, "precondition", verdict)
    IN IF PreconditionFailed(verdict)
       THEN DenyPrecondition(verdict, rec, <<>>, <<rec>>)
       ELSE Allow(<<>>, <<rec>>)

RECURSIVE Depth(_)
Depth(expr) ==
    IF expr.node = "leaf" THEN 0
    ELSE LET ds == {Depth(expr.children[i]) : i \in 1..Len(expr.children)}
         IN 1 + CHOOSE d \in ds : \A e \in ds : e <= d

\* expressions nest at most this deep
MaxDepth == 2

\* the leaves a boolean node is given next to the expression it wraps
Siblings ==
    {Leaf(<<"tool", "name">>, "equals", <<Str(<<"r", "f">>)>>),
     Leaf(<<"tool", "name">>, "equals", <<Str(<<"x">>)>>)}

Evaluated(expr, env) ==
    [stage |-> "evaluated",
     expr |-> expr,
     env |-> env,
     result |-> evaluate_expression(expr, env),
     decision |-> YamlDecision(expr, env)]

\* evaluate_expression on a leaf
EvaluateLeaf ==
    /\ yaml.stage = "none"
    /\ \E env \in YamlEnvelopes, s \in Selectors, o \in Operators :
         \E x \in Operands(o) : yaml' = Evaluated(Leaf(s, o, x), env)
    /\ UNCHANGED <<pipeline, loader, sink, registry, memory, http>>

\* evaluate_expression on {not: expr}
EvaluateNot ==
    /\ yaml.stage = "evaluated"
    /\ Depth(yaml.expr) < MaxDepth
    /\ yaml' = Evaluated(Node("not", <<yaml.expr>>), yaml.env)
    /\ UNCHANGED <<pipeline, loader, sink, registry, memory, http>>

\* the child lists of an all or any node around an expression
ChildLists(expr) ==
    {<<expr>>} \cup {<<s, expr>> : s \in Siblings} \cup {<<expr, s>> : s \in Siblings}

\* evaluate_expression on {all: [...]}
EvaluateAll ==
    /\ yaml.stage = "evaluated"
    /\ Depth(yaml.expr) < MaxDepth
    /\ \E cs \in ChildLists(yaml.expr) : yaml' = Evaluated(Node("all", cs), yaml.env)
    /\ UNCHANGED <<pipeline, loader, sink, registry, memory, http>>

\* evaluate_expression on {any: [...]}
EvaluateAny ==
    /\ yaml.stage = "evaluated"
    /\ Depth(yaml.expr) < MaxDepth
    /\ \E cs \in ChildLists(yaml.expr) : yaml' = Evaluated(Node("any", cs), yaml.env)
    /\ UNCHANGED <<pipeline, loader, sink, registry, memory, http>>

InitYaml ==
    /\ guard = MakeGuard("enforce",
                         [max_attempts |-> 1, max_tool_calls |-> 1,
                          max_calls_per_tool |-> [t \in {} |-> 1]],
                         0, 0, 0, Texts)
    /\ InitLocals
    /\ yaml = NoYaml
    /\ loader = NoLoad
    /\ sink = NoEmit
    /\ registry = NoRegistry
    /\ memory = NoMemory
    /\ http = NoHttp

NextYaml == EvaluateLeaf \/ EvaluateNot \/ EvaluateAll \/ EvaluateAny

\* expressions built bottom-up around a leaf and evaluated at every step
SpecYaml == InitYaml /\ [][NextYaml]_vars

(* ----------------------------- load_bundle ---------------------------- *)
\* loader.py MAX_BUNDLE_SIZE
MAX_BUNDLE_SIZE == 1048576

\* a contract has no `when`
NoWhen == Node("none", <<>>)

OutputText == <<"output", "text">>
ArgsPath == <<"args", "path">>

\* the `when` expressions of the bundles, by the byte that stands for them
WhenExpressions ==
    <<Leaf(ArgsPath, "contains", <<Str(<<"e">>)>>),
      Leaf(OutputText, "contains", <<Str(<<"e">>)>>),
      Node("all", <<Leaf(ArgsPath, "contains", <<Str(<<"e">>)>>),
                    Node("any", <<Node("not", <<Leaf(OutputText, "exists",
                                                     <<Bool(TRUE)>>)>>)>>)>>),
      Leaf(ArgsPath, "matches", <<Str(<<"[", "a">>)>>),
      Node("not", <<Leaf(ArgsPath, "matches_any",
                         <<Str(<<"^", "a">>), Str(<<"[">>)>>)>>),
      Leaf(ArgsPath, "matches", <<Str(<<"[", "a", "]">>)>>)>>

ContractIds == {"a", "b"}

\* the contracts a bundle is written with: {id, type, when} for pre and post,
\* {id, type, limits} for session
BundleContracts ==
    {[id |-> i, type |-> t, when |-> WhenExpressions[w]] :
        i \in ContractIds, t \in {"pre", "post"}, w \in 1..Len(WhenExpressions)}
    \cup {[id |-> i, type |-> "session", when |-> NoWhen] : i \in ContractIds}

\* a bundle lists at most this many contracts
MaxContracts == 2

ContractLists == UNION {[1..n -> BundleContracts] : n \in 0..MaxContracts}

\* what yaml.safe_load makes of a file: a YAMLError, a document that is no
\* mapping, or a mapping with or without apiVersion and with its contracts
Documents ==
    {[kind |-> "yaml_error", apiVersion |-> FALSE, contracts |-> <<>>],
     [kind |-> "list", apiVersion |-> FALSE, contracts |-> <<>>]}
    \cup {[kind |-> "mapping", apiVersion |-> v, contracts |-> cs] :
            v \in BOOLEAN, cs \in ContractLists}

\* the byte a `when` expression is written as
WhenByte(when) ==
    IF when = NoWhen THEN 0
    ELSE CHOOSE w \in 1..Len(WhenExpressions) : WhenExpressions[w] = when

\* the bytes of a contract and of a document
ContractBytes(c) ==
    <<IF c.id = "a" THEN 97 ELSE 98,
      CASE c.type = "pre" -> 112 [] c.type = "post" -> 111 [] c.type = "session" -> 115,
      WhenByte(c.when)>>

RECURSIVE ContractsBytes(_)
ContractsBytes(cs) ==
    IF cs = <<>> THEN <<>> ELSE ContractBytes(Head(cs)) \o ContractsBytes(Tail(cs))

DocumentBytes(doc) ==
    CASE doc.kind = "yaml_error" -> <<58, 32, 91>>
      [] doc.kind = "list" -> <<45, 32, 49>>
      [] doc.kind = "mapping" ->
            (IF doc.apiVersion THEN <<118>> ELSE <<>>) \o ContractsBytes(doc.contracts)

\* what follows the document in the file: nothing, or a line feed
Paddings == {<<>>, <<10>>}

\* the files load_bundle is given: the bytes, the size stat reports and the
\* document the bytes parse to
Files ==
    {[exists |-> TRUE, st_size |-> s, raw |-> DocumentBytes(d) \o p, document |-> d] :
        s \in {MAX_BUNDLE_SIZE, MAX_BUNDLE_SIZE + 1}, d \in Documents, p \in Paddings}
    \cup {[exists |-> FALSE, st_size |-> 0, raw |-> <<>>,
           document |-> [kind |-> "yaml_error", apiVersion |-> FALSE, contracts |-> <<>>]]}

\* hashlib.sha256 is outside the repository: a digest of its width, 32 bytes,
\* computed from the bytes and nothing else stands for it
RECURSIVE Absorb(_, _)
Absorb(h, bytes) ==
    IF bytes = <<>> THEN h
    ELSE Absorb((h * 33 + Head(bytes) + 1) % 65536, Tail(bytes))

sha256(raw_bytes) ==
    LET h == Absorb(5381, raw_bytes)
    IN [i \in 1..32 |-> (h + i * ((h % 251) + 1)) % 256]

HexDigits ==
    <<"0", "1", "2", "3", "4", "5", "6", "7", "8", "9", "a", "b", "c", "d", "e", "f">>

\* hash.hexdigest(): two lower-case hexadecimal digits a byte
hexdigest(digest) ==
    [i \in 1..(2 * Len(digest)) |->
        IF i % 2 = 1 THEN HexDigits[(digest[(i + 1) \div 2] \div 16) + 1]
        ELSE HexDigits[(digest[i \div 2] % 16) + 1]]

\* BundleHash(hex)
BundleHash(hex) == [hex |-> hex]
NoHash == [hex |-> <<>>]

compute_hash_of_content(raw_bytes) ==
    BundleHash(hexdigest(sha256(SelectSeq(raw_bytes, LAMBDA b : b # 10))))

\* loader.py _compute_hash
compute_hash(raw_bytes) == BundleHash(hexdigest(sha256(raw_bytes)))

TooLarge_past_limit(file_size) == file_size > MAX_BUNDLE_SIZE + 1

\* `file_size > MAX_BUNDLE_SIZE`
TooLarge(file_size) == file_size > MAX_BUNDLE_SIZE

\* the embedded schema of the bundle grammar: apiVersion is required and
\* contracts is not empty
SchemaValid(data) == data.apiVersion /\ data.contracts # <<>>

validate_unique_ids_raises_never(data) == FALSE

\* _validate_unique_ids raises: some contract's id was added to ids before it
validate_unique_ids_raises(data) ==
    \E i, j \in 1..Len(data.contracts) : j < i /\ data.contracts[j].id = data.contracts[i].id

\* re.compile raises re.error: a character set is opened and never closed
re_compile_raises(pattern) ==
    \E i \in 1..Len(pattern) :
        /\ pattern[i] = "["
        /\ \A j \in (i + 1)..Len(pattern) : pattern[j] # "]"

validate_expression_regexes_leaves_only(expr) ==
    /\ expr.node = "leaf"
    /\ expr.leaf.operator \in {"matches", "matches_any"}
    /\ \E i \in 1..Len(expr.leaf.operand) : re_compile_raises(expr.leaf.operand[i].str)

RECURSIVE validate_expression_regexes_raises(_)
\* _validate_expression_regexes raises: under all, any and not, some matches
\* or matches_any pattern does not compile
validate_expression_regexes_raises(expr) ==
    IF expr.node \in {"all", "any", "not"}
    THEN \E i \in 1..Len(expr.children) :
            validate_expression_regexes_raises(expr.children[i])
    ELSE /\ expr.node = "leaf"
         /\ expr.leaf.operator \in {"matches", "matches_any"}
         /\ \E i \in 1..Len(expr.leaf.operand) : re_compile_raises(expr.leaf.operand[i].str)

\* _validate_regexes raises: `when` is looked at for every contract that has one
validate_regexes_raises(data) ==
    \E i \in 1..Len(data.contracts) :
        /\ data.contracts[i].when # NoWhen
        /\ validate_expression_regexes_raises(data.contracts[i].when)

expression_has_selector_top_only(expr, target) ==
    expr.node = "leaf" /\ expr.leaf.selector = target

RECURSIVE expression_has_selector(_, _)
\* loader.py _expression_has_selector
expression_has_selector(expr, target) ==
    IF expr.node \in {"all", "any", "not"}
    THEN \E i \in 1..Len(expr.children) : expression_has_selector(expr.children[i], target)
    ELSE expr.node = "leaf" /\ expr.leaf.selector = target

\* _validate_pre_selectors raises: a pre contract's `when` has output.text
validate_pre_selectors_raises(data) ==
    \E i \in 1..Len(data.contracts) :
        /\ data.contracts[i].type = "pre"
        /\ data.contracts[i].when # NoWhen
        /\ expression_has_selector(data.contracts[i].when, OutputText)

NoData == [kind |-> "none", apiVersion |-> FALSE, contracts |-> <<>>]
NoReturn == [data |-> NoData, bundle_hash |-> NoHash]

\* load_bundle at `where`, with its locals
Loading(where, file, raw_bytes, bundle_hash, data) ==
    [stage |-> where, file |-> file, raw_bytes |-> raw_bytes,
     bundle_hash |-> bundle_hash, data |-> data, error |-> "", returned |-> NoReturn]

\* load_bundle raised: its locals are gone and nothing is returned
Raised(l, error) ==
    [stage |-> "raised", file |-> l.file, raw_bytes |-> l.raw_bytes,
     bundle_hash |-> l.bundle_hash, data |-> l.data, error |-> error,
     returned |-> NoReturn]

Stat_wraps_missing ==
    /\ loader.stage = "stat"
    /\ loader' = IF ~loader.file.exists \/ TooLarge(loader.file.st_size)
                 THEN Raised(loader, "CallGuardConfigError")
                 ELSE [loader EXCEPT !.stage = "read_bytes"]
    /\ UNCHANGED <<pipeline, yaml, sink, registry, memory, http>>

\* `path.stat().st_size` and the size check
Stat ==
    /\ loader.stage = "stat"
    /\ loader' = IF ~loader.file.exists THEN Raised(loader, "FileNotFoundError")
                 ELSE IF TooLarge(loader.file.st_size)
                 THEN Raised(loader, "CallGuardConfigError")
                 ELSE [loader EXCEPT !.stage = "read_bytes"]
    /\ UNCHANGED <<pipeline, yaml, sink, registry, memory, http>>

\* `raw_bytes = path.read_bytes()` and `bundle_hash = _compute_hash(raw_bytes)`
ReadBytes ==
    /\ loader.stage = "read_bytes"
    /\ loader' = [loader EXCEPT !.stage = "safe_load",
                                !.raw_bytes = loader.file.raw,
                                !.bundle_hash = compute_hash(loader.file.raw)]
    /\ UNCHANGED <<pipeline, yaml, sink, registry, memory, http>>

\* `yaml.safe_load(raw_bytes)` and the isinstance check of its result
SafeLoad ==
    /\ loader.stage = "safe_load"
    /\ loader' = IF loader.file.document.kind = "yaml_error"
                 THEN Raised(loader, "CallGuardConfigError")
                 ELSE IF loader.file.document.kind # "mapping"
                 THEN Raised([loader EXCEPT !.data = loader.file.document],
                             "CallGuardConfigError")
                 ELSE [loader EXCEPT !.stage = "validate_schema",
                                     !.data = loader.file.document]
    /\ UNCHANGED <<pipeline, yaml, sink, registry, memory, http>>

\* _validate_schema(data)
ValidateSchema ==
    /\ loader.stage = "validate_schema"
    /\ loader' = IF SchemaValid(loader.data)
                 THEN [loader EXCEPT !.stage = "validate_unique_ids"]
                 ELSE Raised(loader, "CallGuardConfigError")
    /\ UNCHANGED <<pipeline, yaml, sink, registry, memory, http>>

\* _validate_unique_ids(data)
ValidateUniqueIds ==
    /\ loader.stage = "validate_unique_ids"
    /\ loader' = IF validate_unique_ids_raises(loader.data)
                 THEN Raised(loader, "CallGuardConfigError")
                 ELSE [loader EXCEPT !.stage = "validate_regexes"]
    /\ UNCHANGED <<pipeline, yaml, sink, registry, memory, http>>

\* _validate_regexes(data)
ValidateRegexes ==
    /\ loader.stage = "validate_regexes"
    /\ loader' = IF validate_regexes_raises(loader.data)
                 THEN Raised(loader, "CallGuardConfigError")
                 ELSE [loader EXCEPT !.stage = "validate_pre_selectors"]
    /\ UNCHANGED <<pipeline, yaml, sink, registry, memory, http>>

\* _validate_pre_selectors(data) and `return data, bundle_hash`
ValidatePreSelectors ==
    /\ loader.stage = "validate_pre_selectors"
    /\ loader' = IF validate_pre_selectors_raises(loader.data)
                 THEN Raised(loader, "CallGuardConfigError")
                 ELSE [loader EXCEPT !.stage = "returned",
                                     !.returned = [data |-> loader.data,
                                                   bundle_hash |-> loader.bundle_hash]]
    /\ UNCHANGED <<pipeline, yaml, sink, registry, memory, http>>

\* a Guard nobody calls, for the parts that are used on their own
IdleGuard ==
    MakeGuard("enforce",
              [max_attempts |-> 1, max_tool_calls |-> 1,
               max_calls_per_tool |-> [t \in {} |-> 1]],
              0, 0, 0, Texts)

InitLoader ==
    /\ guard = IdleGuard
    /\ InitLocals
    /\ yaml = NoYaml
    /\ loader \in {Loading("stat", f, <<>>, NoHash, NoData) : f \in Files}
    /\ sink = NoEmit
    /\ registry = NoRegistry
    /\ memory = NoMemory
    /\ http = NoHttp

NextLoader ==
    \/ Stat
    \/ ReadBytes
    \/ SafeLoad
    \/ ValidateSchema
    \/ ValidateUniqueIds
    \/ ValidateRegexes
    \/ ValidatePreSelectors

\* load_bundle on one file
SpecLoader == InitLoader /\ [][NextLoader]_vars

(* ----------------------------- audit sinks ---------------------------- *)
\* the most attempts an HTTP sink is configured with
MaxRetries == 3

\* the sinks: StdoutSink, FileSink, and an HTTP sink over HTTPSinkBase with
\* its max_retries, base_delay and on_failure (None, or a callback that
\* returns or raises)
SinkConfigs ==
    {[kind |-> k, max_retries |-> 0, base_delay |-> 0, on_failure |-> None] :
        k \in {"stdout", "file"}}
    \cup {[kind |-> "http", max_retries |-> m, base_delay |-> d, on_failure |-> f] :
            m \in 0..MaxRetries, d \in {1, 3}, f \in {None, "returns", "raises"}}

\* the serialized events a sink is given
Bodies == {"event_a", "event_b"}

\* the exception attempt number `attempt` fails with
PostError(attempt) == "ClientError_" \o ToString(attempt)

\* emit at `where`, with the locals of _send_with_retry and what it did so far:
\* the outcome of each POST, the delay of each sleep, each on_failure call
Emitting(config, body) ==
    [stage |-> "emit", config |-> config, body |-> body, attempt |-> 0,
     last_error |-> None, posts |-> <<>>, sleeps |-> <<>>, on_failure_calls |-> <<>>,
     logged |-> <<>>, outcome |-> "pending", error |-> None]

ShouldSleep_every_failure(attempt, max_retries) == attempt < max_retries

\* `if attempt < self._max_retries - 1`
ShouldSleep(attempt, max_retries) == attempt < max_retries - 1

\* `delay = self._base_delay * (2**attempt)`
Delay(base_delay, attempt) == base_delay * (2 ^ attempt)

LastError_first(previous, exc) == IF previous = None THEN exc ELSE previous

\* `last_error = exc`
LastError(previous, exc) == exc

\* `if self._on_failure and last_error is not None`
CallsOnFailure(on_failure, last_error) == on_failure # None /\ last_error # None

\* StdoutSink.emit / FileSink.emit: the write succeeds, or it fails and the
\* OSError leaves emit
Write ==
    /\ sink.stage = "emit"
    /\ sink.config.kind \in {"stdout", "file"}
    /\ \/ sink' = [sink EXCEPT !.stage = "done", !.outcome = "returned"]
       \/ sink' = [sink EXCEPT !.stage = "done", !.outcome = "raised", !.error = "OSError"]
    /\ UNCHANGED <<pipeline, yaml, loader, registry, memory, http>>

\* emit of an HTTP sink: `session = await self._get_session()` and the loop begins
GetSession ==
    /\ sink.stage = "emit"
    /\ sink.config.kind = "http"
    /\ sink' = [sink EXCEPT !.stage = "post"]
    /\ UNCHANGED <<pipeline, yaml, loader, registry, memory, http>>

\* an attempt whose POST succeeds: `return`
PostSucceeds ==
    /\ sink.stage = "post"
    /\ sink.attempt < sink.config.max_retries
    /\ sink' = [sink EXCEPT !.posts = Append(@, "ok"),
                            !.stage = "done",
                            !.outcome = "returned"]
    /\ UNCHANGED <<pipeline, yaml, loader, registry, memory, http>>

\* an attempt whose POST fails: the except branch, with its sleep
PostFails ==
    /\ sink.stage = "post"
    /\ sink.attempt < sink.config.max_retries
    /\ LET exc == PostError(sink.attempt)
       IN sink' = [sink EXCEPT
                     !.posts = Append(@, exc),
                     !.last_error = LastError(@, exc),
                     !.logged = IF ShouldSleep(sink.attempt, sink.config.max_retries)
                                THEN Append(@, "warning") ELSE @,
                     !.sleeps = IF ShouldSleep(sink.attempt, sink.config.max_retries)
                                THEN Append(@, Delay(sink.config.base_delay, sink.attempt))
                                ELSE @,
                     !.attempt = @ + 1]
    /\ UNCHANGED <<pipeline, yaml, loader, registry, memory, http>>

\* the loop is over without a return: logger.error, then on_failure, whose
\* own exception is logged and goes no further
Exhausted ==
    /\ sink.stage = "post"
    /\ sink.attempt >= sink.config.max_retries
    /\ sink' = [sink EXCEPT
                  !.logged = IF CallsOnFailure(sink.config.on_failure, sink.last_error)
                                  /\ sink.config.on_failure = "raises"
                             THEN @ \o <<"error", "exception">>
                             ELSE Append(@, "error"),
                  !.on_failure_calls =
                        IF CallsOnFailure(sink.config.on_failure, sink.last_error)
                        THEN Append(@, [body |-> sink.body, last_error |-> sink.last_error,
                                        after |-> sink.posts])
                        ELSE @,
                  !.stage = "done",
                  !.outcome = "returned"]
    /\ UNCHANGED <<pipeline, yaml, loader, registry, memory, http>>

InitSink ==
    /\ guard = IdleGuard
    /\ InitLocals
    /\ yaml = NoYaml
    /\ loader = NoLoad
    /\ sink \in {Emitting(c, b) : c \in SinkConfigs, b \in Bodies}
    /\ registry = NoRegistry
    /\ memory = NoMemory
    /\ http = NoHttp

NextSink == Write \/ GetSession \/ PostSucceeds \/ PostFails \/ Exhausted

\* one emit on one sink
SpecSink == InitSink /\ [][NextSink]_vars

\* the event loop keeps running the coroutine: every await of emit completes
SpecSinkFair == SpecSink /\ WF_vars(NextSink)

(* ---------------------------- ToolRegistry ---------------------------- *)
\* `defaults` of register_defaults
DefaultSideEffects ==
    [Read |-> SideEffect.NONE, Glob |-> SideEffect.NONE, Grep |-> SideEffect.NONE,
     Write |-> SideEffect.IDEMPOTENT, Edit |-> SideEffect.IDEMPOTENT,
     Bash |-> SideEffect.IRREVERSIBLE]

\* the tools callers register themselves: two that have a default, one that has none
RegisteredTools == {"Read", "Bash", "Deploy"}

\* the tools that are looked up
LookedUpTools == DOMAIN DefaultSideEffects \cup RegisteredTools \cup {"Unknown"}

SideEffects == {SideEffect[m] : m \in DOMAIN SideEffect}

\* ToolRegistry.register: `self._registry[tool_name] = side_effect`
register(r, tool_name, side_effect) ==
    [t \in DOMAIN r \cup {tool_name} |-> IF t = tool_name THEN side_effect ELSE r[t]]

register_defaults_assigning(r) ==
    [t \in DOMAIN r \cup DOMAIN DefaultSideEffects |->
        IF t \in DOMAIN DefaultSideEffects THEN DefaultSideEffects[t] ELSE r[t]]

\* ToolRegistry.register_defaults: `self._registry.setdefault(name, effect)`
\* for every default
register_defaults(r) ==
    [t \in DOMAIN r \cup DOMAIN DefaultSideEffects |->
        IF t \in DOMAIN r THEN r[t] ELSE DefaultSideEffects[t]]

Register ==
    /\ \E t \in RegisteredTools, e \in SideEffects : registry' = register(registry, t, e)
    /\ UNCHANGED <<pipeline, yaml, loader, sink, memory, http>>

RegisterDefaults ==
    /\ registry' = register_defaults(registry)
    /\ UNCHANGED <<pipeline, yaml, loader, sink, memory, http>>

InitRegistry ==
    /\ guard = IdleGuard
    /\ InitLocals
    /\ yaml = NoYaml
    /\ loader = NoLoad
    /\ sink = NoEmit
    /\ registry = NoRegistry
    /\ memory = NoMemory
    /\ http = NoHttp

NextRegistry == Register \/ RegisterDefaults

\* any sequence of register and register_defaults calls on one registry
SpecRegistry == InitRegistry /\ [][NextRegistry]_vars

(* ---------------------------- ToolEnvelope ---------------------------- *)
\* the keys and values of the tool_input mappings callers build
InputKeys == {"command", "path"}
InputValues == {"ls", "rm"}

\* a mapping: each key is absent (None) or has a value
Mappings == [InputKeys -> InputValues \cup {None}]

\* the fields of the dataclass
EnvelopeFields == {"tool_name", "tool_input", "call_id", "timestamp", "session_id", "side_effect"}

\* the one mapping object of the caller, at its address on the heap
CallerMapping == "mapping_1"

\* a caller holding a mapping it has built
Holding(mapping) ==
    [stage |-> "holding",
     heap |-> [a \in {CallerMapping} |-> mapping],
     caller |-> CallerMapping,
     envelope |-> NoEnvelope,
     built_with |-> mapping,
     assignment |-> [field |-> None, raised |-> None]]

\* ToolEnvelope(tool_name, tool_input): the generated __init__ stores the
\* arguments it is given, a mapping by reference; side_effect defaults to NONE
ToolEnvelope(tool_name, tool_input) ==
    [tool_name |-> tool_name, tool_input |-> tool_input, side_effect |-> SideEffect.NONE]

\* what the envelope's tool_input reads as
EnvelopeInput(m) == m.heap[m.envelope.tool_input]

\* the caller builds the envelope from its mapping
Construct ==
    /\ memory.stage = "holding"
    /\ \E t \in Tools :
         memory' = [memory EXCEPT !.stage = "built",
                                  !.envelope = ToolEnvelope(t, memory.caller),
                                  !.built_with = memory.heap[memory.caller]]
    /\ UNCHANGED <<pipeline, yaml, loader, sink, registry, http>>

\* `envelope.<field> = value` on the frozen dataclass: FrozenInstanceError,
\* and the envelope is as it was
AssignField ==
    /\ memory.stage = "built"
    /\ \E f \in EnvelopeFields :
         memory' = [memory EXCEPT !.assignment =
                                     [field |-> f, raised |-> "FrozenInstanceError"]]
    /\ UNCHANGED <<pipeline, yaml, loader, sink, registry, http>>

\* the caller writes to or deletes from the mapping it still holds
CallerMutates ==
    /\ memory.stage = "built"
    /\ \E k \in InputKeys, v \in InputValues \cup {None} :
         memory' = [memory EXCEPT !.heap[memory.caller][k] = v]
    /\ UNCHANGED <<pipeline, yaml, loader, sink, registry, http>>

InitEnvelope ==
    /\ guard = IdleGuard
    /\ InitLocals
    /\ yaml = NoYaml
    /\ loader = NoLoad
    /\ sink = NoEmit
    /\ registry = NoRegistry
    /\ memory \in {Holding(m) : m \in Mappings}
    /\ http = NoHttp

NextEnvelope == Construct \/ AssignField \/ CallerMutates

\* a caller, its mapping and the envelope it builds from it
SpecEnvelope == InitEnvelope /\ [][NextEnvelope]_vars

(* ------------------------ CallGuard.from_yaml ------------------------- *)
\* the calls of load_bundle that returned, one for each unpadded file of a
\* pre contract and a session contract that it accepts: from_yaml builds its
\* guard from what one of them returned
YamlLoads ==
    {[Loading("returned", f, f.raw, compute_hash(f.raw), f.document)
        EXCEPT !.returned = [data |-> f.document,
                             bundle_hash |-> compute_hash(f.raw)]] :
        f \in {g \in Files :
                 /\ g.exists
                 /\ ~TooLarge(g.st_size)
                 /\ g.document.kind = "mapping"
                 /\ SchemaValid(g.document)
                 /\ ~validate_unique_ids_raises(g.document)
                 /\ ~validate_regexes_raises(g.document)
                 /\ ~validate_pre_selectors_raises(g.document)
                 /\ Len(g.document.contracts) = 2
                 /\ g.document.contracts[1].type = "pre"
                 /\ g.document.contracts[2].type = "session"
                 /\ Len(g.raw) = Len(DocumentBytes(g.document))}}

\* guard.policy_version: the hex digest of the bundle from_yaml loaded, None
\* for a guard built from Python objects
policy_version ==
    IF loader.stage = "returned" THEN loader.returned.bundle_hash.hex ELSE None

\* a guard built by from_yaml, or built programmatically, before its first call
InitFromYaml ==
    /\ guard \in {MakeGuard(m, l, NumHooks, NumPreconditions, NumSessionContracts, Texts) :
                    m \in Modes, l \in {k \in Limits : k.max_attempts = k.max_tool_calls}}
    /\ InitLocals
    /\ yaml = NoYaml
    /\ loader \in YamlLoads \cup {NoLoad}
    /\ sink = NoEmit
    /\ registry = NoRegistry
    /\ memory = NoMemory
    /\ http = NoHttp

SpecFromYaml == InitFromYaml /\ [][Next]_vars

(* ----------------------- the pipeline on its own ----------------------- *)
\* limits under which each check of pre_execute can be the one that denies:
\* one attempt only, or room for attempts with two executions and one of bash
PipelineLimits ==
    {l \in Limits :
        \/ l.max_attempts = 1
        \/ /\ l.max_attempts = MaxLimit
           /\ l.max_tool_calls = 2
           /\ DOMAIN l.max_calls_per_tool = CappedTools
           /\ \A t \in CappedTools : l.max_calls_per_tool[t] = 1}

\* a Guard with one after-hook more than MakeGuard registers, the second
\* carrying a when predicate, and with `npost` postconditions: the one bound
\* to bash, and with it or without it one bound to the wildcard
PipelineGuard(mode, limits, npost) ==
    [MakeGuard(mode, limits, NumHooks, NumPreconditions, NumSessionContracts, Texts)
       EXCEPT !.hooks = [i \in 1..NumHooks |-> HookRegistration("before", i)]
                          \o [i \in 1..NumAfterHooks + 1 |-> HookRegistration("after", i)],
              !.postconditions = [i \in 1..npost |->
                                    ContractRegistration("postcondition", i)]]

InitPipeline ==
    /\ guard \in {PipelineGuard(m, l, n) :
                    m \in Modes, l \in PipelineLimits,
                    n \in {NumPostconditions, NumPostconditions + 1}}
    /\ InitLocals
    /\ yaml = NoYaml
    /\ loader = NoLoad
    /\ sink = NoEmit
    /\ registry = NoRegistry
    /\ memory = NoMemory
    /\ http = NoHttp

\* pre_execute and post_execute under run() calls made one after another
SpecPipeline == InitPipeline /\ [][Next]_vars

(* ----------------------- HTTP sink: the session ------------------------ *)
\* the callers that emit on the sink at the same time, and those that close it
NumEmitters == 2
NumClosers == 2
\* the close() calls made on the sink
MaxCloses == 2

Emitters == 1..NumEmitters
Closers == 1..NumClosers

\* HTTPSinkBase.__init__: `self._session = None`, no client session created,
\* nobody emitting or closing.  A reference is <<>> for None and <<i>> for the
\* i-th session created; closed[i] is ClientSession.closed of that session.
\* epoch counts the times a close() closed or cleared the session, and
\* used[k] holds the sessions _get_session returned during epoch k.
NewSink ==
    [stage |-> "built",
     session |-> <<>>,
     closed |-> <<>>,
     emit |-> [e \in Emitters |-> [pc |-> "idle", session |-> <<>>]],
     close |-> [c \in Closers |-> "idle"],
     closes |-> 0,
     epoch |-> 0,
     used |-> [k \in 0..(2 * MaxCloses) |-> {}]]

\* `self._session is None or self._session.closed`
NeedsSession(h) == h.session = <<>> \/ h.closed[h.session[1]]

get_session_always_new(h) ==
    [h EXCEPT !.closed = Append(@, FALSE), !.session = <<Len(h.closed) + 1>>]

\* _get_session: the sink after it; its return value is self._session
get_session(h) ==
    IF NeedsSession(h)
    THEN [h EXCEPT !.closed = Append(@, FALSE), !.session = <<Len(h.closed) + 1>>]
    ELSE h

\* `if self._session and not self._session.closed` of close()
ClosesSession(h) == h.session # <<>> /\ ~h.closed[h.session[1]]

\* _send_with_retry up to its first POST: `session = await self._get_session()`
\* does not suspend, _get_session awaits nothing
HttpGetSession(e) ==
    /\ http.stage = "built"
    /\ http.emit[e].pc = "idle"
    /\ LET h == get_session(http)
       IN http' = [h EXCEPT !.emit[e] = [pc |-> "post", session |-> h.session],
                            !.used[http.epoch] = @ \cup {h.session[1]}]
    /\ UNCHANGED <<pipeline, yaml, loader, sink, registry, memory>>

\* the attempts of the emit on its local `session` are over: it returns
HttpPosted(e) ==
    /\ http.stage = "built"
    /\ http.emit[e].pc = "post"
    /\ http' = [http EXCEPT !.emit[e] = [pc |-> "idle", session |-> <<>>]]
    /\ UNCHANGED <<pipeline, yaml, loader, sink, registry, memory>>

\* close() up to `await self._session.close()`: the client session is marked
\* closed when its close() starts, and close() of the sink is suspended in it;
\* with no open session close() returns at once
HttpCloseBegin(c) ==
    /\ http.stage = "built"
    /\ http.close[c] = "idle"
    /\ http.closes < MaxCloses
    /\ http' = IF ClosesSession(http)
               THEN [http EXCEPT !.closed[http.session[1]] = TRUE,
                                 !.close[c] = "closing",
                                 !.closes = @ + 1,
                                 !.epoch = @ + 1]
               ELSE [http EXCEPT !.closes = @ + 1]
    /\ UNCHANGED <<pipeline, yaml, loader, sink, registry, memory>>

\* close() resumes: `self._session = None`
HttpCloseEnd(c) ==
    /\ http.stage = "built"
    /\ http.close[c] = "closing"
    /\ http' = [http EXCEPT !.session = <<>>,
                            !.close[c] = "idle",
                            !.epoch = @ + 1]
    /\ UNCHANGED <<pipeline, yaml, loader, sink, registry, memory>>

InitHttp ==
    /\ guard = IdleGuard
    /\ InitLocals
    /\ yaml = NoYaml
    /\ loader = NoLoad
    /\ sink = NoEmit
    /\ registry = NoRegistry
    /\ memory = NoMemory
    /\ http = NewSink

NextHttp ==
    \/ \E e \in Emitters : HttpGetSession(e) \/ HttpPosted(e)
    \/ \E c \in Closers : HttpCloseBegin(c) \/ HttpCloseEnd(c)

\* emits and closes on one HTTP sink, interleaved at their awaits
SpecHttp == InitHttp /\ [][NextHttp]_vars

(* ------------------------------ claims -------------------------------- *)
Names(s) == [i \in 1..Len(s) |-> s[i].name]

\* pre_execute has returned to the run
Decided(p) == pc[p] \in {"decided", "execute", "post_execute", "done"}

\* the callbacks pre_execute invoked for the call, in order
PreInvoked(p) ==
    SelectSeq(invoked[p], LAMBDA e : e.kind \in {"hook", "precondition", "session_contract"})

HooksOf(s) == SelectSeq(s, LAMBDA e : e.kind = "hook")
PreconditionsOf(s) == SelectSeq(s, LAMBDA e : e.kind = "precondition")
ContractsOf(s) == SelectSeq(s, LAMBDA e : e.kind \in {"precondition", "session_contract"})

\* the before-hooks that apply to the call: tool match and when predicate
ApplicableHooks(p) ==
    SelectSeq(get_hooks(guard, "before", envelope[p]), LAMBDA h : WhenHolds(h, envelope[p]))

\* the check that ended a denied call, told from what was invoked and read
DenyingCheck(p) ==
    IF reads[p].exec_count # <<>> THEN "operation_limit"
    ELSE IF PreInvoked(p) # <<>> THEN Last(PreInvoked(p)).kind
    ELSE "attempt_limit"

Terminal == {"call_allow", "call_deny", "call_would_deny", "call_error"}

C2_AttemptLimit ==
    \A p \in Runs :
      (reads[p].attempt_count # <<>>) =>
        LET n == reads[p].attempt_count[1] IN
        /\ n >= 1
        /\ n = session.attempts
        /\ (decision[p].decision_source = "attempt_limit") <=> (n > guard.limits.max_attempts)
        /\ (decision[p].decision_source = "attempt_limit") =>
              /\ decision[p].action = "deny"
              /\ decision[p].hooks_evaluated = <<>>
              /\ decision[p].contracts_evaluated = <<>>
              /\ PreInvoked(p) = <<>>
              /\ reads[p].exec_count = <<>>

C2_Witness ==
    \E p \in Runs :
      /\ decision[p].decision_source = "attempt_limit"
      /\ guard.limits.max_attempts = 2
      /\ reads[p].attempt_count = <<3>>

AllHooksPassed(p, hs) ==
    /\ Names(hs) = Names(ApplicableHooks(p))
    /\ \A j \in 1..Len(hs) : hs[j].returned.result # "deny"

\* every applicable precondition was invoked, in registration order, all passed
AllPreconditionsPassed(p, cs) ==
    /\ Names(cs) = Names(get_preconditions(guard, envelope[p]))
    /\ \A j \in 1..Len(cs) : cs[j].returned.passed

\* C4: a precondition is invoked only after every applicable before-hook
\* was invoked without a deny, and preconditions are invoked in registration
\* order; the first failing verdict ends pre_execute with deny, source
\* precondition and the verdict's message as reason, and nothing is invoked
\* or read after it.
C4_Preconditions ==
    \A p \in Runs :
      LET pi == PreInvoked(p) IN
      \A i \in 1..Len(pi) :
        (pi[i].kind = "precondition") =>
          LET before == SubSeq(pi, 1, i - 1)
              k == Len(PreconditionsOf(before)) + 1
          IN /\ AllHooksPassed(p, HooksOf(before))
             /\ \A j \in 1..(i - 1) : pi[j].kind \in {"hook", "precondition"}
             /\ \A j \in 1..(i - 1) : pi[j].kind = "precondition" => pi[j].returned.passed
             /\ k <= Len(get_preconditions(guard, envelope[p]))
             /\ pi[i].name = get_preconditions(guard, envelope[p])[k].name
             /\ ~pi[i].returned.passed =>
                  /\ i = Len(pi)
                  /\ decision[p].action = "deny"
                  /\ decision[p].decision_source = "precondition"
                  /\ decision[p].reason = pi[i].returned.message
                  /\ reads[p].exec_count = <<>>
                  /\ reads[p].tool_count = <<>>

C4_Witness ==
    \E p \in Runs :
      /\ decision[p].decision_source = "precondition"
      /\ Len(PreInvoked(p)) = 3
      /\ Len(HooksOf(PreInvoked(p))) = 2
      /\ Len(get_preconditions(guard, envelope[p])) = 2

AllChecksPassed(p) ==
    LET pi == PreInvoked(p) IN
    /\ reads[p].attempt_count # <<>>
    /\ reads[p].attempt_count[1] <= guard.limits.max_attempts
    /\ AllHooksPassed(p, HooksOf(pi))
    /\ AllPreconditionsPassed(p, PreconditionsOf(pi))
    /\ Names(SelectSeq(pi, LAMBDA e : e.kind = "session_contract"))
         = Names(get_session_contracts(guard))
    /\ \A j \in 1..Len(pi) : pi[j].kind = "session_contract" => pi[j].returned.passed

\* C6: pre_execute denies with source operation_limit and name
\* max_tool_calls exactly when the attempt check, all hooks and all contracts
\* passed and the execution count it reads is at least max_tool_calls; so for
\* calls made one after another in enforce mode the session's execution
\* count never exceeds max_tool_calls.
C6_ExecutionLimit ==
    /\ \A p \in Runs :
         LET denied == /\ decision[p].decision_source = "operation_limit"
                       /\ decision[p].decision_name = "max_tool_calls"
         IN /\ (reads[p].exec_count # <<>>) =>
                 /\ AllChecksPassed(p)
                 /\ denied <=> (reads[p].exec_count[1] >= guard.limits.max_tool_calls)
            /\ denied => (decision[p].action = "deny" /\ reads[p].exec_count # <<>>)
            /\ (Decided(p) /\ AllChecksPassed(p)) => (reads[p].exec_count # <<>>)
    /\ (guard.mode = "enforce") => (session.executions <= guard.limits.max_tool_calls)

C6_Witness ==
    \E p \in Runs :
      /\ guard.mode = "enforce"
      /\ decision[p].decision_name = "max_tool_calls"
      /\ session.executions = 2
      /\ guard.limits.max_tool_calls = 2
      /\ Len(PreInvoked(p)) >= 4

\* C7: for a tool with a cap, pre_execute denies with source
\* operation_limit and name max_calls_per_tool:<tool> exactly when every
\* earlier check, the execution limit included, passed and the tool's
\* execution count it reads is at least the cap; a tool without a cap is never
\* denied by this check.  With cap 2 the calls that find 0 or 1 executions of
\* the tool are allowed and the call that finds 2 is denied.
C7_PerToolLimit ==
    \A p \in Runs :
      LET tool == envelope[p].tool_name
          caps == guard.limits.max_calls_per_tool
          denied == /\ decision[p].decision_source = "operation_limit"
                    /\ decision[p].decision_name = "max_calls_per_tool:" \o tool
      IN /\ (reads[p].tool_count # <<>>) =>
              /\ tool \in DOMAIN caps
              /\ AllChecksPassed(p)
              /\ reads[p].exec_count # <<>>
              /\ reads[p].exec_count[1] < guard.limits.max_tool_calls
              /\ (pc[p] = "decided") =>
                   reads[p].tool_count[1] = session.tool_executions[tool]
              /\ denied <=> (reads[p].tool_count[1] >= caps[tool])
              /\ ~denied => decision[p].action = "allow"
         /\ denied => (decision[p].action = "deny" /\ reads[p].tool_count # <<>>)
         /\ (tool \notin DOMAIN caps) =>
              decision[p].decision_name \notin {"max_calls_per_tool:" \o t : t \in Tools}
         /\ (/\ Decided(p)
             /\ AllChecksPassed(p)
             /\ tool \in DOMAIN caps
             /\ decision[p].decision_name # "max_tool_calls") => (reads[p].tool_count # <<>>)

C7_Witness ==
    \E p \in Runs :
      /\ decision[p].decision_name = "max_calls_per_tool:bash"
      /\ guard.limits.max_calls_per_tool = [t \in {"bash"} |-> 2]
      /\ session.tool_executions["bash"] = 2
      /\ session.attempts = 3

\* C8: the returned PreDecision lists in hooks_evaluated and
\* contracts_evaluated exactly the hooks and contracts that were invoked for
\* the call, in invocation order and with what they returned; the check that
\* ended the call is the last entry of its list and carries decision_name.
C8_EvaluatedLists ==
    \A p \in Runs :
      Decided(p) =>
        LET hs == HooksOf(PreInvoked(p))
            cs == ContractsOf(PreInvoked(p))
            he == decision[p].hooks_evaluated
            ce == decision[p].contracts_evaluated
        IN /\ Len(he) = Len(hs)
           /\ \A i \in 1..Len(hs) :
                he[i] = [name |-> hs[i].name,
                         result |-> hs[i].returned.result,
                         reason |-> hs[i].returned.reason]
           /\ Len(ce) = Len(cs)
           /\ \A i \in 1..Len(cs) :
                ce[i] = [name |-> cs[i].name,
                         type |-> cs[i].kind,
                         passed |-> cs[i].returned.passed,
                         message |-> cs[i].returned.message]
           /\ (decision[p].decision_source = "hook") =>
                (he # <<>> /\ Last(he).name = decision[p].decision_name
                           /\ Last(he).result = "deny")
           /\ (decision[p].decision_source \in {"precondition", "session_contract"}) =>
                (ce # <<>> /\ Last(ce).name = decision[p].decision_name
                           /\ Last(ce).type = decision[p].decision_source
                           /\ ~Last(ce).passed)

C8_Witness ==
    \E p \in Runs :
      /\ decision[p].decision_source = "session_contract"
      /\ Len(decision[p].hooks_evaluated) = 1
      /\ Len(get_hooks(guard, "before", envelope[p])) = 2
      /\ Len(decision[p].contracts_evaluated) = 3

\* the tool_input in force before the i-th callback of the call: the
\* modified_input of the last hook before it that returned modify
EffectiveInput(p, i) ==
    LET pi == PreInvoked(p)
        mods == {j \in 1..(i - 1) : pi[j].kind = "hook" /\ pi[j].returned.result = "modify"}
    IN IF mods = {} THEN envelope[p].tool_input
       ELSE pi[CHOOSE j \in mods : \A m \in mods : m <= j].returned.modified_input

\* C9: after a before-hook returned modify, every later before-hook, every
\* precondition and the executor receive the modified_input of the last
\* modifying hook as tool_input.
C9_ModifiedInputSeen ==
    \A p \in Runs :
      LET pi == PreInvoked(p) IN
      /\ \A i \in 1..Len(pi) :
           (pi[i].kind \in {"hook", "precondition"}) => pi[i].tool_input = EffectiveInput(p, i)
      /\ \A k \in 1..Len(executor_calls[p]) :
           executor_calls[p][k] = EffectiveInput(p, Len(pi) + 1)

\* C10: under concurrent run() calls sharing the session, in enforce mode
\* the executions counted in the session never exceed max_tool_calls and the
\* executions of a capped tool never exceed its cap.
C10_LimitsNotRacy ==
    (guard.mode = "enforce") =>
      /\ session.executions <= guard.limits.max_tool_calls
      /\ \A t \in DOMAIN guard.limits.max_calls_per_tool :
           session.tool_executions[t] <= guard.limits.max_calls_per_tool[t]

\* the audit events of the call with the given action
EventsOf(p, action) == SelectSeq(audit[p], LAMBDA e : e.action = action)

FirstRefusal(p) ==
    LET pi == PreInvoked(p)
        bad == {i \in 1..Len(pi) :
                  \/ pi[i].kind = "hook" /\ pi[i].returned.result = "deny"
                  \/ pi[i].kind # "hook" /\ ~pi[i].returned.passed}
    IN IF bad = {} THEN 0 ELSE CHOOSE i \in bad : \A j \in bad : i <= j

\* action, decision_source and decision_name as the limits, the counters read,
\* the envelope and what the callbacks returned determine them; the mode is
\* not among them
DecisionOf(p) ==
    LET pi == PreInvoked(p)
        tool == envelope[p].tool_name
        caps == guard.limits.max_calls_per_tool
        k == FirstRefusal(p)
    IN IF reads[p].attempt_count[1] > guard.limits.max_attempts
       THEN <<"deny", "attempt_limit", "max_attempts">>
       ELSE IF k > 0
       THEN <<"deny", pi[k].kind, pi[k].name>>
       ELSE IF reads[p].exec_count[1] >= guard.limits.max_tool_calls
       THEN <<"deny", "operation_limit", "max_tool_calls">>
       ELSE IF tool \in DOMAIN caps /\ reads[p].tool_count[1] >= caps[tool]
       THEN <<"deny", "operation_limit", "max_calls_per_tool:" \o tool>>
       ELSE <<"allow", None, None>>

\* C12: the action, decision_source and decision_name pre_execute returns
\* are those that the guard's limits, the session counters it read, the
\* envelope and the answers of the callbacks determine, in observe mode as in
\* enforce mode: the mode has no part in the decision.
C12_ModeIndependent ==
    \A p \in Runs :
      Decided(p) =>
        <<decision[p].action, decision[p].decision_source, decision[p].decision_name>>
          = DecisionOf(p)

C12_Witness ==
    \E p \in Runs :
      /\ guard.mode = "observe"
      /\ Decided(p)
      /\ decision[p].decision_source = "hook"
      /\ DecisionOf(p)[1] = "deny"

\* the positions of the call's terminal audit events
TerminalEvents(p) == {i \in 1..Len(audit[p]) : audit[p][i].action \in Terminal}

\* C13: the audit events of a call are call_modify events, one per hook that
\* returned modify, followed by exactly one terminal event (call_allow,
\* call_deny, call_would_deny or call_error): never two terminal events, no
\* call_modify after the terminal event, and a call that has ended has its
\* terminal event.
C13_AuditOrder ==
    \A p \in Runs :
      /\ Cardinality(TerminalEvents(p)) <= 1
      /\ \A i \in 1..Len(audit[p]) :
           audit[p][i].action \in Terminal \cup {"call_modify"}
      /\ \A i \in TerminalEvents(p) : i = Len(audit[p])
      /\ (pc[p] = "done") =>
           /\ Cardinality(TerminalEvents(p)) = 1
           /\ Len(EventsOf(p, "call_modify"))
                = Len(SelectSeq(HooksOf(PreInvoked(p)),
                                LAMBDA h : h.returned.result = "modify"))

\* the executor of the call raised
ExecutorRaised(p) == result[p] = [kind |-> "raised", value |-> "executor error"]

\* C14: when the executor raises, run() emits call_error, which is the last
\* audit event of the call, the caller gets the executor's error, and no
\* postcondition and no after-hook is invoked for the call: post_execute does
\* not run.
C14_ExecutorRaises ==
    \A p \in Runs :
      /\ ExecutorRaised(p) =>
           /\ pc[p] = "done"
           /\ Len(executor_calls[p]) = 1
           /\ Len(EventsOf(p, "call_error")) = 1
           /\ Last(audit[p]).action = "call_error"
           /\ EventsOf(p, "call_allow") = <<>>
           /\ \A i \in 1..Len(invoked[p]) :
                invoked[p][i].kind \notin {"postcondition", "after_hook"}
           /\ post[p] = NoPost
      /\ (EventsOf(p, "call_error") # <<>>) => ExecutorRaised(p)

C14_Witness ==
    \E p \in Runs :
      /\ ExecutorRaised(p)
      /\ decision[p].action = "allow"
      /\ get_postconditions(guard, envelope[p]) # <<>>
      /\ AfterHooksInvoked(guard, envelope[p]) # <<>>
      /\ Last(audit[p]).action = "call_error"

RECURSIVE SumOver(_, _)
SumOver(f, S) ==
    IF S = {} THEN 0
    ELSE LET t == CHOOSE x \in S : TRUE IN f[t] + SumOver(f, S \ {t})

\* the step starts a run() call
CallStarts(p) == pc[p] = "idle" /\ pc'[p] # "idle"

\* the step is the executor of an allowed call of the tool returning
RanAllowed(p, t) ==
    /\ pc[p] = "execute"
    /\ pc'[p] = "post_execute"
    /\ decision[p].action = "allow"
    /\ envelope[p].tool_name = t

\* what a step does to the counters: the attempt count grows by one with
\* every run() call that starts, a tool's execution count by one with every
\* allowed call of the tool whose executor returns, and by nothing else
CountedStep ==
    /\ session'.attempts =
         session.attempts + Cardinality({p \in Runs : CallStarts(p)})
    /\ \A t \in Tools :
         session'.tool_executions[t] =
           session.tool_executions[t] + Cardinality({p \in Runs : RanAllowed(p, t)})

\* C15: the session's counters count the calls: attempt_count the run()
\* calls made whatever their outcome, tool_execution_count(T) the calls of T
\* that were allowed and whose executor ran successfully, execution_count
\* their sum over the tools; a denied call adds one to attempt_count and
\* nothing to the execution counts.
C15_Counters ==
    /\ [](session.executions = SumOver(session.tool_executions, Tools))
    /\ [][CountedStep]_vars

C15_Witness ==
    \E p \in Runs :
      /\ guard.mode = "enforce"
      /\ pc[p] = "done"
      /\ decision[p].action = "deny"
      /\ session.attempts = 3
      /\ session.executions = 2
      /\ session.tool_executions = [t \in Tools |-> 1]

\* C16: a call cancelled while suspended in a hook, a contract or the
\* executor has call_error with reason "cancelled" as its single terminal
\* event, is counted in the attempt count and in no execution count.
C16_Cancelled ==
    \A p \in Runs :
      (result[p].kind = "cancelled") =>
        /\ Last(audit[p]).action = "call_error"
        /\ Last(audit[p]).reason = "cancelled"
        /\ TerminalEvents(p) = {Len(audit[p])}
        /\ session.attempts = reads[p].attempt_count[1]
        /\ EventsOf(p, "call_allow") = <<>>
        /\ session.executions = SumOver(session.tool_executions, Tools)
        /\ (reads[p].exec_count # <<>>) => session.executions = reads[p].exec_count[1]

\* the postconditions invoked for the call, in order
PostInvoked(p) == SelectSeq(invoked[p], LAMBDA e : e.kind = "postcondition")

\* the call's executor returned and post_execute was called, and is over
PostExecuted(p) ==
    /\ pc[p] = "done"
    /\ executor_calls[p] # <<>>
    /\ result[p].kind \in {"returned", "raised"}
    /\ ~ExecutorRaised(p)

\* C17: post-contracts only observe: post_execute evaluates every applicable
\* postcondition whatever the earlier ones returned, returns one warning per
\* failing verdict, returns the tool_success it was given, and a failing
\* verdict never makes it raise or keeps run() from returning the result.
C17_PostObserveOnly ==
    \A p \in Runs :
      PostExecuted(p) =>
        /\ Names(PostInvoked(p)) = Names(get_postconditions(guard, envelope[p]))
        /\ result[p].kind = "returned"
        /\ post[p] # NoPost
        /\ post[p].tool_success = TRUE
        /\ Len(post[p].warnings)
             = Len(SelectSeq(PostInvoked(p), LAMBDA e : ~e.returned.passed))

\* C18: every failing postcondition has its warning, and the warning
\* suggests retrying when the envelope's side effect is none and says the
\* tool already executed for every other side effect.
C18_WarningBySideEffect ==
    \A p \in Runs :
      PostExecuted(p) =>
        \A i \in 1..Len(PostInvoked(p)) :
          (~PostInvoked(p)[i].returned.passed) =>
            \E j \in 1..Len(post[p].warnings) :
              /\ post[p].warnings[j].message = PostInvoked(p)[i].returned.message
              /\ post[p].warnings[j].advice =
                   IF envelope[p].side_effect = SideEffect.NONE
                   THEN "Consider retrying."
                   ELSE "Tool already executed - assess before proceeding."

RECURSIVE HasMismatchedLeaf(_, _)
\* the expression has a leaf whose selector resolves to a value of a type its
\* operator does not take
HasMismatchedLeaf(expr, env) ==
    IF expr.node = "leaf"
    THEN /\ resolve_selector(expr.leaf.selector, env) # Absent
         /\ TypeMismatch(expr.leaf.operator, resolve_selector(expr.leaf.selector, env))
    ELSE \E i \in 1..Len(expr.children) : HasMismatchedLeaf(expr.children[i], env)

\* C19: an expression built with all, any and not around a type-mismatched
\* leaf evaluates to a PolicyError, which is neither true nor false and is
\* truthy, and the pipeline denies the call for a deny pre-contract using it.
C19_FailClosed ==
    (yaml.stage = "evaluated" /\ HasMismatchedLeaf(yaml.expr, yaml.env)) =>
        /\ yaml.result.kind = "policy_error"
        /\ yaml.result \notin {BoolResult(TRUE), BoolResult(FALSE)}
        /\ Truthy(yaml.result)
        /\ yaml.decision.action = "deny"
        /\ yaml.decision.decision_source = "precondition"
        /\ yaml.decision.reason = "denied by policy"

\* {not: {all: [false leaf, mismatched leaf]}} came out as a PolicyError and a deny
C19_Witness ==
    /\ yaml.stage = "evaluated"
    /\ yaml.expr.node = "not"
    /\ yaml.expr.children[1].node = "all"
    /\ Len(yaml.expr.children[1].children) = 2
    /\ evaluate_expression(yaml.expr.children[1].children[1], yaml.env) = BoolResult(FALSE)
    /\ HasMismatchedLeaf(yaml.expr.children[1].children[2], yaml.env)
    /\ yaml.result.kind = "policy_error"
    /\ yaml.decision.action = "deny"

\* C20: on a selector that does not resolve to a present, non-null value every
\* comparison operator is false and no PolicyError, exists: false is true and
\* exists: true is false.
C20_AbsentIsFalse ==
    (/\ yaml.stage = "evaluated"
     /\ yaml.expr.node = "leaf"
     /\ resolve_selector(yaml.expr.leaf.selector, yaml.env) = Absent) =>
        /\ yaml.expr.leaf.operator \in ComparisonOperators =>
              yaml.result = BoolResult(FALSE)
        /\ yaml.expr.leaf.operator = "exists" =>
              yaml.result = BoolResult(yaml.expr.leaf.operand[1] = Bool(FALSE))

\* not_equals on args.config.timeout, config having no timeout, came out false
C20_Witness ==
    /\ yaml.stage = "evaluated"
    /\ yaml.expr.node = "leaf"
    /\ yaml.expr.leaf.selector = <<"args", "config", "timeout">>
    /\ Lookup(yaml.env.tool_input, "config") = Dict({})
    /\ yaml.expr.leaf.operator = "not_equals"
    /\ yaml.result = BoolResult(FALSE)

\* load_bundle is over: it returned or it raised
Loaded == loader.stage \in {"returned", "raised"}

RECURSIVE PatternsOf(_)
\* the patterns of the matches and matches_any leaves of an expression
PatternsOf(expr) ==
    IF expr.node = "leaf"
    THEN IF expr.leaf.operator \in {"matches", "matches_any"}
         THEN {expr.leaf.operand[i].str : i \in 1..Len(expr.leaf.operand)}
         ELSE {}
    ELSE UNION {PatternsOf(expr.children[i]) : i \in 1..Len(expr.children)}

RECURSIVE SelectorsOf(_)
\* the selectors of the leaves of an expression
SelectorsOf(expr) ==
    IF expr.node = "leaf" THEN {expr.leaf.selector}
    ELSE UNION {SelectorsOf(expr.children[i]) : i \in 1..Len(expr.children)}

SizeOk(file) == file.st_size <= MAX_BUNDLE_SIZE
Parses(file) == file.document.kind # "yaml_error"
IsMapping(file) == file.document.kind = "mapping"
UniqueIds(file) ==
    Cardinality({file.document.contracts[i].id : i \in 1..Len(file.document.contracts)})
        = Len(file.document.contracts)
PatternsCompile(file) ==
    \A i \in 1..Len(file.document.contracts) :
        \A pattern \in PatternsOf(file.document.contracts[i].when) :
            ~re_compile_raises(pattern)
PreUsesOutputText(file) ==
    \E i \in 1..Len(file.document.contracts) :
        /\ file.document.contracts[i].type = "pre"
        /\ OutputText \in SelectorsOf(file.document.contracts[i].when)

PassesEveryCheck(file) ==
    /\ SizeOk(file)
    /\ Parses(file)
    /\ IsMapping(file)
    /\ SchemaValid(file.document)
    /\ UniqueIds(file)
    /\ PatternsCompile(file)
    /\ ~PreUsesOutputText(file)

\* C21: load_bundle returns the parsed bundle and its hash only for a file
\* that passes every check (size, YAML, mapping, schema, unique ids, regexes,
\* no output.text in a pre contract); when a check fails it raises a
\* ConfigError and returns neither a bundle nor a hash.
C21_LoadOrConfigError ==
    (Loaded /\ loader.file.exists) =>
        IF PassesEveryCheck(loader.file)
        THEN /\ loader.stage = "returned"
             /\ loader.returned.data = loader.file.document
             /\ loader.returned.bundle_hash # NoHash
        ELSE /\ loader.stage = "raised"
             /\ loader.error = "CallGuardConfigError"
             /\ loader.returned = NoReturn

\* a bundle with a duplicate id was read and hashed, then refused
C21_Witness ==
    /\ loader.stage = "raised"
    /\ loader.error = "CallGuardConfigError"
    /\ loader.bundle_hash # NoHash
    /\ SchemaValid(loader.file.document)
    /\ ~UniqueIds(loader.file)
    /\ loader.returned = NoReturn

\* the characters of a lower-case hexadecimal number
LowerHex ==
    {"0", "1", "2", "3", "4", "5", "6", "7", "8", "9", "a", "b", "c", "d", "e", "f"}

\* C22: the bundle hash is the SHA-256 of the exact bytes read, as 64
\* lower-case hex characters; it is computed from the bytes before they are
\* parsed and whatever they parse to.
C22_HashOfBytes ==
    (loader.stage \notin {"none", "stat", "read_bytes"} /\ loader.raw_bytes = loader.file.raw
        /\ loader.bundle_hash # NoHash) =>
        /\ loader.bundle_hash.hex = hexdigest(sha256(loader.file.raw))
        /\ Len(loader.bundle_hash.hex) = 64
        /\ \A i \in 1..Len(loader.bundle_hash.hex) : loader.bundle_hash.hex[i] \in LowerHex
        /\ loader.stage = "returned" => loader.returned.bundle_hash = loader.bundle_hash

\* a file that ends in a line feed was loaded: its hash is not the hash of the
\* same document without the line feed
C22_Witness ==
    /\ loader.stage = "returned"
    /\ Last(loader.file.raw) = 10
    /\ loader.returned.bundle_hash.hex = hexdigest(sha256(loader.file.raw))
    /\ loader.returned.bundle_hash.hex
         # hexdigest(sha256(DocumentBytes(loader.file.document)))

\* every check but the one on the selectors of pre contracts passes
PassesEarlierChecks(file) ==
    /\ file.exists
    /\ SizeOk(file)
    /\ Parses(file)
    /\ IsMapping(file)
    /\ SchemaValid(file.document)
    /\ UniqueIds(file)
    /\ PatternsCompile(file)

\* C30: a bundle with a pre contract whose `when` uses output.text, at any
\* depth under all, any and not, is refused with a ConfigError; output.text in
\* a post contract is accepted.
C30_PreOutputText ==
    Loaded =>
        /\ (loader.file.exists /\ PreUsesOutputText(loader.file)) =>
              /\ loader.stage = "raised"
              /\ loader.error = "CallGuardConfigError"
        /\ (PassesEarlierChecks(loader.file) /\ ~PreUsesOutputText(loader.file)) =>
              loader.stage = "returned"

\* output.text under all, any and not in a pre contract, with nothing else
\* wrong, was refused by the last check
C30_Witness ==
    /\ loader.stage = "raised"
    /\ PassesEarlierChecks(loader.file)
    /\ \E i \in 1..Len(loader.file.document.contracts) :
          /\ loader.file.document.contracts[i].type = "pre"
          /\ loader.file.document.contracts[i].when.node = "all"
          /\ OutputText \in SelectorsOf(loader.file.document.contracts[i].when)

\* C24: a sink never raises out to the pipeline: whatever fails inside emit
\* (the write of the stdout or file sink, every HTTP attempt, the on_failure
\* callback), emit catches it and returns.
C24_SinkNeverRaises ==
    sink.stage = "done" => sink.outcome = "returned"

\* C25: _send_with_retry makes at most max_retries attempts and terminates; it
\* returns right after the first attempt that succeeds, sleeps
\* base_delay * 2^i after failed attempt i that is not the last, and does not
\* sleep after the last one.
C25_RetryBackoff ==
    /\ [](sink.stage # "none" /\ sink.config.kind = "http" =>
            /\ Len(sink.posts) <= sink.config.max_retries
            /\ \A i \in 1..Len(sink.posts) : sink.posts[i] = "ok" =>
                  i = Len(sink.posts) /\ sink.stage = "done"
            /\ \A i \in 1..Len(sink.sleeps) :
                  sink.sleeps[i] = sink.config.base_delay * (2 ^ (i - 1))
            /\ Len(sink.sleeps) =
                  Cardinality({i \in 1..Len(sink.posts) :
                                 sink.posts[i] # "ok" /\ i < sink.config.max_retries}))
    /\ <>(sink.stage = "done")

\* two attempts failed and were slept after, the third succeeded
C25_Witness ==
    /\ sink.stage = "done"
    /\ sink.config.kind = "http"
    /\ Len(sink.posts) = 3
    /\ sink.posts[3] = "ok"
    /\ sink.sleeps = <<sink.config.base_delay, 2 * sink.config.base_delay>>

\* C26: with max_retries >= 1 and an on_failure callback, on_failure is
\* invoked exactly once, after the last attempt, with the body and the error
\* of the last attempt, if and only if every attempt failed; never when an
\* attempt succeeded, never before the retries are exhausted.
C26_OnFailureOnce ==
    (/\ sink.stage # "none"
     /\ sink.config.kind = "http"
     /\ sink.config.max_retries >= 1
     /\ sink.config.on_failure # None) =>
        /\ Len(sink.on_failure_calls) <= 1
        /\ sink.on_failure_calls # <<>> =>
              /\ Len(sink.on_failure_calls[1].after) = sink.config.max_retries
              /\ \A i \in 1..sink.config.max_retries :
                    sink.on_failure_calls[1].after[i] # "ok"
              /\ sink.on_failure_calls[1].body = sink.body
              /\ sink.on_failure_calls[1].last_error
                   = PostError(sink.config.max_retries - 1)
        /\ sink.stage = "done" =>
              (Len(sink.on_failure_calls) = 1
                 <=> /\ Len(sink.posts) = sink.config.max_retries
                     /\ \A i \in 1..Len(sink.posts) : sink.posts[i] # "ok")

\* three attempts failed and on_failure, which raises, was called once
C26_Witness ==
    /\ sink.stage = "done"
    /\ sink.config.kind = "http"
    /\ sink.config.max_retries = 3
    /\ sink.config.on_failure = "raises"
    /\ Len(sink.posts) = 3
    /\ Len(sink.on_failure_calls) = 1
    /\ sink.on_failure_calls[1].last_error = PostError(2)

\* a register_defaults call leaves every entry that was there as it was and
\* adds the defaults that were missing
DefaultsOnlyInsert ==
    RegisterDefaults =>
        /\ \A t \in DOMAIN registry : registry'[t] = registry[t]
        /\ DOMAIN registry' = DOMAIN registry \cup DOMAIN DefaultSideEffects
        /\ \A t \in DOMAIN registry' \ DOMAIN registry : registry'[t] = DefaultSideEffects[t]

\* C28: register_defaults only inserts missing entries: what was registered
\* before it keeps its side effect, calling it twice is calling it once, and
\* a tool that was never registered and is no default resolves to none.
C28_RegisterDefaults ==
    /\ [][DefaultsOnlyInsert]_vars
    /\ [](/\ register_defaults(register_defaults(registry)) = register_defaults(registry)
          /\ \A t \in LookedUpTools \ DOMAIN registry :
                get_side_effect(registry, t) = SideEffect.NONE
          /\ \A t \in DOMAIN registry : get_side_effect(registry, t) = registry[t])

\* Bash was registered as reversible, and it still is with the defaults in
C28_Witness ==
    /\ DOMAIN DefaultSideEffects \subseteq DOMAIN registry
    /\ registry["Bash"] = SideEffect.REVERSIBLE
    /\ "Deploy" \notin DOMAIN registry
    /\ get_side_effect(registry, "Deploy") = SideEffect.NONE

\* C27: an envelope is never mutated after construction: assigning to a field
\* fails and leaves it unchanged, and the envelope does not alias the caller's
\* state, so what it holds is what it was built with whatever the caller does
\* to its mapping afterwards.
C27_EnvelopeImmutable ==
    memory.stage = "built" =>
        /\ memory.assignment.field # None =>
              memory.assignment.raised = "FrozenInstanceError"
        /\ memory.envelope.tool_name \in Tools
        /\ EnvelopeInput(memory) = memory.built_with

\* the names of the contracts registered for tool_name or for every tool
BoundTo(contracts, tool_name) ==
    Names(SelectSeq(contracts, LAMBDA c : c.tool = tool_name \/ c.tool = "*"))

IsPrefix(s, t) == Len(s) <= Len(t) /\ s = SubSeq(t, 1, Len(s))

\* pre_execute went past the preconditions of the call
PastPreconditions(p) ==
    /\ Decided(p)
    /\ decision[p].decision_source \notin {"attempt_limit", "hook", "precondition"}

\* C29: the pre- and post-contracts evaluated for a call are those bound to
\* the call's tool_name or to the wildcard, and no other: a contract bound to
\* another tool is never evaluated, never denies and never warns, and every
\* contract bound to the tool or to * is evaluated once the pipeline gets to it.
C29_ToolDispatch ==
    \A p \in Runs :
      pc[p] # "idle" =>
        LET pre == Names(PreconditionsOf(PreInvoked(p)))
            posts == Names(PostInvoked(p))
            duePre == BoundTo(guard.preconditions, envelope[p].tool_name)
            duePost == BoundTo(guard.postconditions, envelope[p].tool_name)
        IN /\ IsPrefix(pre, duePre)
           /\ IsPrefix(posts, duePost)
           /\ PastPreconditions(p) => pre = duePre
           /\ (Decided(p) /\ decision[p].decision_source = "precondition") =>
                 \E i \in 1..Len(duePre) : duePre[i] = decision[p].decision_name
           /\ result[p].kind = "returned" =>
                 /\ posts = duePost
                 /\ Names(post[p].contracts_evaluated) = duePost

\* a read_file call went through: of the two preconditions only the wildcard
\* one was evaluated, and the postcondition bound to bash was not
C29_Witness ==
    \E p \in Runs :
      /\ result[p].kind = "returned"
      /\ envelope[p].tool_name = "read_file"
      /\ Len(guard.preconditions) = 2
      /\ Len(PreconditionsOf(PreInvoked(p))) = 1
      /\ guard.postconditions # <<>>
      /\ PostInvoked(p) = <<>>

\* C23: every audit event of a guard built by from_yaml carries policy_version
\* equal to the hash of the loaded bundle, and every audit event of a guard
\* built programmatically carries policy_version None.
C23_PolicyVersionStamped ==
    \A p \in Runs : \A i \in 1..Len(audit[p]) :
        /\ "policy_version" \in DOMAIN audit[p][i]
        /\ audit[p][i].policy_version = policy_version

\* the registration of the hook called `name`
Registered(name) ==
    CHOOSE h \in {guard.hooks[i] : i \in 1..Len(guard.hooks)} : h.name = name

\* the hook carries a when predicate and the predicate is false for the envelope
PredicateFalse(h, env) ==
    h.when # None /\ ~(h.when = "input_is_a" /\ env.tool_input = "a")

\* the hooks of a phase that apply to the call's tool and carry no predicate
Unconditional(p, phase) ==
    SelectSeq(get_hooks(guard, phase, envelope[p]), LAMBDA h : h.when = None)

\* the names of the hooks invoked for the call in a phase
InvokedHooks(p, kind) ==
    {invoked[p][i].name : i \in {j \in 1..Len(invoked[p]) : invoked[p][j].kind = kind}}

\* pre_execute got through its before-hook loop without a deny
PastBeforeHooks(p) ==
    \/ pc[p] \in {"preconditions", "session_contracts", "execution_limit", "per_tool_limit"}
    \/ Decided(p) /\ decision[p].decision_source \notin {"attempt_limit", "hook"}

\* C31: a before-hook or after-hook whose when predicate is false for the
\* envelope is not invoked, has no entry in hooks_evaluated and is never the
\* hook that denies; a hook without a predicate that applies to the tool is
\* invoked whenever its loop gets to it.
C31_WhenSkips ==
    \A p \in Runs :
      pc[p] # "idle" =>
        /\ \A i \in 1..Len(invoked[p]) :
             invoked[p][i].kind \in {"hook", "after_hook"} =>
               ~PredicateFalse(Registered(invoked[p][i].name), envelope[p])
        /\ \A i \in 1..Len(hooks_evaluated[p]) :
             ~PredicateFalse(Registered(hooks_evaluated[p][i].name), envelope[p])
        /\ \A i \in 1..Len(decision[p].hooks_evaluated) :
             ~PredicateFalse(Registered(decision[p].hooks_evaluated[i].name), envelope[p])
        /\ decision[p].decision_source = "hook" =>
             ~PredicateFalse(Registered(decision[p].decision_name), envelope[p])
        /\ PastBeforeHooks(p) =>
             \A i \in 1..Len(Unconditional(p, "before")) :
               Unconditional(p, "before")[i].name \in InvokedHooks(p, "hook")
        /\ result[p].kind = "returned" =>
             \A i \in 1..Len(Unconditional(p, "after")) :
               Unconditional(p, "after")[i].name \in InvokedHooks(p, "after_hook")

\* a bash call with input b returned: of the two before-hooks and the two
\* after-hooks that apply to bash, the one with the false predicate was skipped
C31_Witness ==
    \E p \in Runs :
      /\ result[p].kind = "returned"
      /\ Len(get_hooks(guard, "before", envelope[p])) = 2
      /\ Len(get_hooks(guard, "after", envelope[p])) = 2
      /\ PredicateFalse(get_hooks(guard, "before", envelope[p])[2], envelope[p])
      /\ PredicateFalse(get_hooks(guard, "after", envelope[p])[2], envelope[p])
      /\ Cardinality(InvokedHooks(p, "hook")) = 1
      /\ Cardinality(InvokedHooks(p, "after_hook")) = 1
      /\ Len(decision[p].hooks_evaluated) = 1

\* the after-hooks invoked for the call, in order
AfterInvoked(p) == SelectSeq(invoked[p], LAMBDA e : e.kind = "after_hook")

\* C32: once post_execute is over, the after-hooks were invoked in
\* registration order, each after every applicable postcondition was
\* evaluated, whether or not a postcondition failed; the PostDecision is
\* built from the postconditions alone.
C32_AfterHooksRun ==
    \A p \in Runs :
      PostExecuted(p) =>
        /\ Names(PostInvoked(p)) = Names(get_postconditions(guard, envelope[p]))
        /\ Names(AfterInvoked(p))
             = Names(SelectSeq(get_hooks(guard, "after", envelope[p]),
                               LAMBDA h : ~PredicateFalse(h, envelope[p])))
        /\ \A i, j \in 1..Len(invoked[p]) :
             (invoked[p][i].kind = "postcondition" /\ invoked[p][j].kind = "after_hook")
               => i < j
        /\ post[p].contracts_evaluated
             = [i \in 1..Len(PostInvoked(p)) |->
                  [name |-> PostInvoked(p)[i].name, type |-> "postcondition",
                   passed |-> PostInvoked(p)[i].returned.passed,
                   message |-> PostInvoked(p)[i].returned.message]]

\* post_execute returned its PostDecision to the run
PostReturned(p) == pc[p] = "done" /\ result[p].kind = "returned"

\* the entries of a PostDecision's contracts_evaluated that did not pass
FailedEntries(d) == SelectSeq(d.contracts_evaluated, LAMBDA c : ~c.passed)

DenySources == {"attempt_limit", "hook", "precondition", "session_contract", "operation_limit"}

\* one of the six checks of pre_execute failed for the call: the attempt
\* limit, a before-hook, a precondition, a session contract, the execution
\* limit or the per-tool limit
SomeCheckFailed(p) ==
    \/ reads[p].attempt_count # <<>>
         /\ reads[p].attempt_count[1] > guard.limits.max_attempts
    \/ \E i \in 1..Len(invoked[p]) :
         invoked[p][i].kind = "hook" /\ invoked[p][i].returned.result = "deny"
    \/ \E i \in 1..Len(invoked[p]) :
         invoked[p][i].kind \in {"precondition", "session_contract"}
           /\ ~invoked[p][i].returned.passed
    \/ reads[p].exec_count # <<>>
         /\ reads[p].exec_count[1] >= guard.limits.max_tool_calls
    \/ reads[p].tool_count # <<>>
         /\ reads[p].tool_count[1] >= guard.limits.max_calls_per_tool[envelope[p].tool_name]

\* C34: every PreDecision pre_execute returns has action allow or deny; an
\* allow has no reason, source or name; a deny has one of the five sources
\* and a name; and the action is allow exactly when none of the six checks
\* failed, every one of them having been made.
C34_PreDecisionShape ==
    \A p \in Runs :
      Decided(p) =>
        LET d == decision[p] IN
        /\ d.action \in {"allow", "deny"}
        /\ d.action = "allow" =>
             /\ d.reason = None
             /\ d.decision_source = None
             /\ d.decision_name = None
             /\ AllChecksPassed(p)
             /\ reads[p].exec_count # <<>>
             /\ (envelope[p].tool_name \in DOMAIN guard.limits.max_calls_per_tool)
                  = (reads[p].tool_count # <<>>)
        /\ d.action = "deny" =>
             /\ d.decision_source \in DenySources
             /\ d.decision_name # None
        /\ (d.action = "allow") = ~SomeCheckFailed(p)

\* the check that comes last denied: the per-tool limit, for a bash call
\* whose hooks and contracts had all passed
C34_Witness ==
    \E p \in Runs :
      /\ Decided(p)
      /\ decision[p].action = "deny"
      /\ decision[p].decision_source = "operation_limit"
      /\ decision[p].decision_name = "max_calls_per_tool:bash"
      /\ AllChecksPassed(p)

\* the run is inside pre_execute
InPreExecute(p) ==
    pc[p] \in {"attempt_limit", "before_hooks", "preconditions", "session_contracts",
               "execution_limit", "per_tool_limit"}

Delivered == \E i \in 1..Len(sink.posts) : sink.posts[i] = "ok"

\* C38: an event handed to _send_with_retry is delivered by a successful
\* POST, or else its failure is logged and, when an on_failure callback is
\* configured, on_failure is invoked with it: under every max_retries, 0
\* included.
C38_DeliveredOrReported ==
    (sink.stage = "done" /\ sink.config.kind = "http" /\ ~Delivered) =>
        /\ \E i \in 1..Len(sink.logged) : sink.logged[i] = "error"
        /\ sink.config.on_failure # None =>
             /\ Len(sink.on_failure_calls) = 1
             /\ sink.on_failure_calls[1].body = sink.body

\* the first check of load_bundle, in the order size, YAML parse, mapping,
\* schema, unique ids, regexes, pre selectors, that the file does not pass
FirstFailing(file) ==
    IF ~SizeOk(file) THEN "size"
    ELSE IF ~Parses(file) THEN "parse"
    ELSE IF ~IsMapping(file) THEN "mapping"
    ELSE IF ~SchemaValid(file.document) THEN "schema"
    ELSE IF ~UniqueIds(file) THEN "unique_ids"
    ELSE IF ~PatternsCompile(file) THEN "regexes"
    ELSE IF PreUsesOutputText(file) THEN "pre_selectors"
    ELSE "none"

\* load_bundle raises its ConfigError in this step
RaisesConfigError ==
    /\ loader.stage \notin {"none", "raised", "returned"}
    /\ loader'.stage = "raised"
    /\ loader'.error = "CallGuardConfigError"

\* the check load_bundle is at when it raises
RaisingCheck ==
    CASE loader.stage = "stat" -> "size"
      [] loader.stage = "safe_load" -> IF loader'.data = NoData THEN "parse" ELSE "mapping"
      [] loader.stage = "validate_schema" -> "schema"
      [] loader.stage = "validate_unique_ids" -> "unique_ids"
      [] loader.stage = "validate_regexes" -> "regexes"
      [] loader.stage = "validate_pre_selectors" -> "pre_selectors"
      [] OTHER -> "none"

\* C39: load_bundle raises its ConfigError at the first check the file does
\* not pass, in the order size, YAML parse, top-level mapping, schema,
\* duplicate ids, regex compilation, output.text in pre contracts; an
\* oversized file is rejected with nothing of its content read or parsed.
C39_FirstFailingCheck ==
    [][RaisesConfigError =>
         /\ RaisingCheck = FirstFailing(loader.file)
         /\ loader.stage = "stat" =>
              (loader'.raw_bytes = <<>> /\ loader'.data = NoData
                 /\ loader'.bundle_hash = NoHash)]_vars

\* a bundle with a duplicate id, a pattern that does not compile and
\* output.text in a pre contract was rejected, by the duplicate-id check
C39_Witness ==
    /\ loader.stage = "raised"
    /\ loader.error = "CallGuardConfigError"
    /\ FirstFailing(loader.file) = "unique_ids"
    /\ ~PatternsCompile(loader.file)
    /\ PreUsesOutputText(loader.file)

\* C40: when the path does not exist load_bundle raises FileNotFoundError,
\* not its ConfigError, and returns neither a bundle nor a hash; it raises
\* FileNotFoundError for no file that exists.
C40_FileNotFound ==
    Loaded =>
      /\ ~loader.file.exists =>
           /\ loader.stage = "raised"
           /\ loader.error = "FileNotFoundError"
           /\ loader.returned = NoReturn
           /\ loader.raw_bytes = <<>>
           /\ loader.bundle_hash = NoHash
      /\ loader.error = "FileNotFoundError" => ~loader.file.exists

\* load_bundle was called with a path that does not exist, and is over
C40_Witness ==
    /\ Loaded
    /\ ~loader.file.exists
    /\ loader.error = "FileNotFoundError"

\* the sessions created so far
Created == 1..Len(http.closed)

\* an emit gets its session in this step
Acquires(e) == http.emit[e].pc = "idle" /\ http'.emit[e].pc = "post"

\* a close() is called in this step
CloseCalled == http'.closes = http.closes + 1

\* C36: a client session is created only by an emit that finds the sink with
\* no session or a closed one, so the emits between two closes all use one
\* session; close() closes the sink's open session and then clears the
\* reference, a close() that finds no open session changes nothing, and the
\* first emit after a close() gets a fresh, open session.
C36_SessionReused ==
    /\ [](\A k \in DOMAIN http.used : Cardinality(http.used[k]) <= 1)
    /\ [][/\ \A e \in Emitters :
               Acquires(e) =>
                 /\ http'.emit[e].session = http'.session
                 /\ ~http'.closed[http'.session[1]]
                 /\ IF http.session # <<>> /\ ~http.closed[http.session[1]]
                    THEN http'.session = http.session /\ http'.closed = http.closed
                    ELSE http'.session = <<Len(http.closed) + 1>>
                           /\ http'.closed = Append(http.closed, FALSE)
          /\ (\A e \in Emitters : ~Acquires(e)) => Len(http'.closed) = Len(http.closed)
          /\ CloseCalled =>
               IF http.session # <<>> /\ ~http.closed[http.session[1]]
               THEN http'.closed[http.session[1]] /\ http'.session = http.session
               ELSE http'.session = http.session /\ http'.closed = http.closed
          /\ \A c \in Closers :
               (http.close[c] = "closing" /\ http'.close[c] = "idle") =>
                 http'.session = <<>>]_vars

\* after a close() that is over, two emits are in flight on one session: the
\* fresh one the first of them created and the second found open
C36_Witness ==
    /\ http.stage = "built"
    /\ http.closes = 1
    /\ http.session = <<2>>
    /\ http.closed = <<TRUE, FALSE>>
    /\ \A c \in Closers : http.close[c] = "idle"
    /\ \A e \in Emitters : http.emit[e] = [pc |-> "post", session |-> <<2>>]

\* C37: under every interleaving of close() with emits, each session the sink
\* created is closed or is the one the sink refers to; so once the closes are
\* over and no emit is in flight, no session is open.
C37_NoSessionLost ==
    http.stage = "built" =>
      /\ \A i \in Created : http.closed[i] \/ http.session = <<i>>
      /\ (/\ http.closes = MaxCloses
          /\ \A c \in Closers : http.close[c] = "idle"
          /\ \A e \in Emitters : http.emit[e].pc = "idle"
          /\ http.session = <<>>)
           => \A i \in Created : http.closed[i]

====
